---- MODULE Spec2Model ----
(***************************************************************************)
(* A model of the dnsclient stub resolver: the client configuration, the   *)
(* resolution engine (query_from_parsed_query and                          *)
(* send_query_to_upstream_server, blocking and async), query_raw with      *)
(* transaction-id masking, and the typed extractors built on the engine.   *)
(*                                                                         *)
(* One step of the model is the code that runs between two transport       *)
(* exchanges: the upstream server's behaviour at an exchange is the only   *)
(* input that arrives in the middle of a call.                             *)
(***************************************************************************)
EXTENDS Integers, Sequences, FiniteSets, TLC

(***************************************************************************)
(* Bounds of the model.                                                    *)
(***************************************************************************)
MaxServers == 2
MaxTid == 1
MaxAnswers == 2
MaxPtrServers == 1
MaxTxtByte == 2
MaxTxtLen == 4
MaxConcServers == 2

SeqUpTo(S, n) == UNION {[1..k -> S] : k \in 0..n}

Range(s) == {s[i] : i \in 1..Len(s)}

(***************************************************************************)
(* Values.  A transaction id is a u16; the model keeps 0..MaxTid of them   *)
(* (ids are only ever copied and compared).  Names are byte strings.       *)
(***************************************************************************)
Tids == 0..MaxTid

SocketAddrs == {[family |-> "V4", host |-> "1.0.0.1", port |-> 53],
                [family |-> "V6", host |-> "2606:4700::1111", port |-> 53]}

UpstreamServer == [addr : SocketAddrs]

DNS_FLAG_QR == "QR"
DNS_FLAG_TC == "TC"

Flags == SUBSET {DNS_FLAG_QR, DNS_FLAG_TC}

\* Option<(Vec<u8>, u16, u16)>: <<>> is None, <<name, type, class>> is Some.
NoQuestion == <<>>

Question(name, rr_type, rr_class) == <<name, rr_type, rr_class>>

\* A name that no query of the model asks for.
OtherName == <<120>>

ParsedPacket(t, f, q, an) == [tid |-> t, flags |-> f, question |-> q, answers |-> an]

NullPacket == ParsedPacket(0, {}, NoQuestion, <<>>)

\* Bytes on the wire: either the encoding of a message or bytes the codec rejects.
Wire(p) == [parses |-> TRUE, pkt |-> p]

Garbage == [parses |-> FALSE, pkt |-> NullPacket]

\* Result<ParsedPacket, io::Error>
OkPkt(p) == [ok |-> TRUE, kind |-> "", msg |-> "", pkt |-> p]

ErrPkt(k, m) == [ok |-> FALSE, kind |-> k, msg |-> m, pkt |-> NullPacket]

\* Result<Vec<u8>, io::Error> of a transport exchange
OkBytes(b) == [ok |-> TRUE, kind |-> "", msg |-> "", bytes |-> b]

ErrBytes(k, m) == [ok |-> FALSE, kind |-> k, msg |-> m, bytes |-> Garbage]

\* Result<T, io::Error> of a public operation
Ok(v) == [ok |-> TRUE, kind |-> "", msg |-> "", val |-> v]

Err(k, m) == [ok |-> FALSE, kind |-> k, msg |-> m, val |-> <<>>]

NoResult == [ok |-> FALSE, kind |-> "none", msg |-> "", val |-> <<>>]

NoPktResult == ErrPkt("none", "")

VARIABLES
    client,            \* "sync" (sync.rs) or "async" (async.rs)
    upstream_servers,  \* DNSClient.upstream_servers
    force_tcp,         \* DNSClient.force_tcp (the async client has no such field)
    local_v4_addr,     \* DNSClient.local_v4_addr
    local_v6_addr,     \* DNSClient.local_v6_addr
    pc,                \* "idle", "exchange" (first exchange with server idx is next),
                       \* "tcp" (the follow-up TCP exchange is next), "done"
    callers,           \* the public operations on the call stack, outermost first
    query,             \* query_raw's argument: the caller's bytes
    tid_masking,       \* query_raw's argument
    tid,               \* query_raw's local: the caller's transaction id
    masked_tid,        \* query_raw's local: the id the random generator produced
    ip,                \* query_ptr's argument
    ptr_answers,       \* query_ptr's local parsed_response: its answer section
    rest,              \* query_ptr: the answer records after the one being confirmed
    names,             \* query_ptr's local
    fwd_name,          \* query_ptr: the decoded name being confirmed
    fwd,               \* history: the forward lookups of this query_ptr and their results
    valid_query,       \* query_from_parsed_query's local: the bytes sent
    query_tid,         \* query_from_parsed_query's local
    query_question,    \* query_from_parsed_query's local
    idx,               \* position of the for loop over upstream_servers
    response,          \* bytes received by the latest exchange of the current attempt
    exchanges,         \* history: the transport exchanges of the current resolution
    attempts,          \* history: what send_query_to_upstream_server returned, per server
    resolved,          \* what the latest query_from_parsed_query returned
    result,            \* what the public operation returned
    script,            \* concurrent calls: what each server answers each call
    tasks,             \* concurrent calls: the state of each call
    sockets,           \* concurrent calls: the sockets that are open
    platform,          \* the target of the build: "unix" or another one
    resolv_conf        \* the lines of /etc/resolv.conf, or that it cannot be read

cfg_vars == <<client, upstream_servers, force_tcp, local_v4_addr, local_v6_addr>>

conc_vars == <<script, tasks, sockets>>

host_vars == <<platform, resolv_conf>>

engine_vars == <<valid_query, query_tid, query_question, idx, response, exchanges,
                 attempts>>

call_vars == <<callers, query, tid_masking, tid, masked_tid, ip, ptr_answers, rest, names, fwd_name,
               fwd>>

vars == <<cfg_vars, pc, engine_vars, call_vars, resolved, result, conc_vars, host_vars>>

(***************************************************************************)
(* The message codec (the dnssector crate), as the client uses it.         *)
(***************************************************************************)
\* DNSSector::new(bytes)?.parse()?, with the client's map_err
parse(bytes) ==
    IF bytes.parses THEN OkPkt(bytes.pkt) ELSE ErrPkt("InvalidInput", "parse error")

into_packet(p) == Wire(p)

set_tid_ignored(p, t) == p

\* ParsedPacket::set_tid
set_tid(p, t) == [p EXCEPT !.tid = t]

Dot == 46

\* A name the query builder accepts: no empty label inside it.
ValidName(name) ==
    /\ name # <<>>
    /\ \/ name = <<Dot>>
       \/ /\ name[1] # Dot
          /\ \A i \in 1..(Len(name) - 1) : ~(name[i] = Dot /\ name[i + 1] = Dot)

\* dnssector::gen::query(name, type, class), with the client's map_err: the
\* builder picks the transaction id t.
gen_query(name, rr_type, rr_class, t) ==
    IF ValidName(name)
    THEN OkPkt(ParsedPacket(t, {}, Question(name, rr_type, rr_class), <<>>))
    ELSE ErrPkt("InvalidInput", "invalid name")

RR(rr_class, rr_type, rdata) == [class |-> rr_class, type |-> rr_type, rdata |-> rdata]

\* item.rr_ip(): the address of an A or AAAA record
rr_ip(rr) ==
    IF rr.type = "A" THEN [ok |-> TRUE, family |-> "V4", addr |-> rr.rdata]
    ELSE IF rr.type = "AAAA" THEN [ok |-> TRUE, family |-> "V6", addr |-> rr.rdata]
    ELSE [ok |-> FALSE, family |-> "", addr |-> <<>>]

\* item.rr_rd(): RawRRData::IpAddr for A and AAAA records, RawRRData::Data otherwise
rr_rd(rr) ==
    IF rr.type \in {"A", "AAAA"}
    THEN [variant |-> "IpAddr", data |-> <<>>]
    ELSE [variant |-> "Data", data |-> rr.rdata]

\* String::from_utf8 on the byte strings of the model: ASCII, and the byte 255
Utf8(bytes) == \A i \in 1..Len(bytes) : bytes[i] < 128

Ipv4a == <<1, 1, 1, 1>>
Ipv4b == <<1, 0, 0, 1>>
Ipv4c == <<192, 0, 2, 1>>
Ipv6a == <<38, 6, 71, 0, 71, 0, 0, 0, 0, 0, 0, 0, 0, 0, 17, 17>>

CnameRR == RR("IN", "CNAME", <<1, 98, 0>>)

\* The records a server of the model may put in the answer section, by the
\* type of the question asked.
AnswerRRs(rr_type) ==
    CASE rr_type \in {"A", "AAAA"} ->
           {RR("IN", "A", Ipv4a), RR("IN", "A", Ipv4b), RR("IN", "AAAA", Ipv6a), CnameRR}
      [] rr_type = "TXT" ->
           {RR("IN", "TXT", <<3, 97, 98, 99, 2, 100, 101>>),
            RR("IN", "TXT", <<5, 97, 98, 99>>),
            RR("CH", "TXT", <<2, 97>>),
            CnameRR}
      [] rr_type = "PTR" ->
           {RR("IN", "PTR", <<1, 97, 0>>),
            RR("IN", "PTR", <<1, 98, 1, 99, 0>>),
            RR("IN", "PTR", <<2, 97>>),
            RR("IN", "PTR", <<1, 255, 0>>),
            CnameRR}
      [] rr_type = "NS" ->
           {RR("IN", "NS", <<1, 97, 0>>),
            RR("IN", "NS", <<1, 98, 0>>),
            RR("CH", "NS", <<1, 99, 0>>),
            CnameRR}
      [] OTHER -> {CnameRR}

AnswerLists(rr_type) == SeqUpTo(AnswerRRs(rr_type), MaxAnswers)

(***************************************************************************)
(* The upstream servers and the transport backend.  A server may answer an *)
(* exchange with any bytes: garbage, or a message with any transaction id, *)
(* any flags, the question asked, another one or none, and any answers.    *)
(***************************************************************************)
Replies(sent) ==
    LET q == sent.pkt.question IN
    {Garbage} \cup
    {Wire(ParsedPacket(t, f, rq, an)) :
        t \in Tids, f \in Flags,
        rq \in {q, Question(OtherName, q[2], q[3]), NoQuestion},
        an \in AnswerLists(q[2])}

\* bind, connect or send fail with the OS's error; a failed or timed out recv is
\* WouldBlock; the async backend's timeout around the exchange is TimedOut.
dns_exchange_udp(c, sent) ==
    {ErrBytes("AddrInUse", "bind"), ErrBytes("WouldBlock", "Timeout")}
    \cup (IF c = "async" THEN {ErrBytes("TimedOut", "future timed out")} ELSE {})
    \cup {OkBytes(b) : b \in Replies(sent)}

\* connect, write or read fail with the OS's error; a length prefix above
\* DNS_MAX_COMPRESSED_SIZE is InvalidData.
dns_exchange_tcp(c, sent) ==
    {ErrBytes("ConnectionRefused", "connect"), ErrBytes("InvalidData", "Response too large")}
    \cup (IF c = "async" THEN {ErrBytes("TimedOut", "future timed out")} ELSE {})
    \cup {OkBytes(b) : b \in Replies(sent)}

(***************************************************************************)
(* The state after DNSClient::new(upstream_servers), and the setters.      *)
(***************************************************************************)
NoCall == [callers |-> <<>>, query |-> Garbage, tid_masking |-> FALSE, tid |-> 0,
           masked_tid |-> 0, ip |-> <<>>, ptr_answers |-> <<>>,
           rest |-> <<>>, names |-> <<>>, fwd_name |-> <<>>, fwd |-> <<>>]

NoEngine == [valid_query |-> Garbage, query_tid |-> 0, query_question |-> NoQuestion,
             idx |-> 0, response |-> Garbage, exchanges |-> <<>>, attempts |-> <<>>]

SetCall(ctx) ==
    /\ callers' = ctx.callers
    /\ query' = ctx.query
    /\ tid_masking' = ctx.tid_masking
    /\ tid' = ctx.tid
    /\ masked_tid' = ctx.masked_tid
    /\ ip' = ctx.ip
    /\ ptr_answers' = ctx.ptr_answers
    /\ rest' = ctx.rest
    /\ names' = ctx.names
    /\ fwd_name' = ctx.fwd_name
    /\ fwd' = ctx.fwd

SetEngine(eng) ==
    /\ valid_query' = eng.valid_query
    /\ query_tid' = eng.query_tid
    /\ query_question' = eng.query_question
    /\ idx' = eng.idx
    /\ response' = eng.response
    /\ exchanges' = eng.exchanges
    /\ attempts' = eng.attempts

\* ([0; 4], 0) and ([0; 16], 0): the unspecified address, any port
AnyV4 == [family |-> "V4", host |-> "0.0.0.0", port |-> 0]

AnyV6 == [family |-> "V6", host |-> "::", port |-> 0]

\* /etc/resolv.conf as the lines of its text, each split at white space, or
\* the error of reading it
ResolvConf(l) == [readable |-> TRUE, kind |-> "", lines |-> l]

Unreadable(k) == [readable |-> FALSE, kind |-> k, lines |-> <<>>]

\* A unix host with an empty /etc/resolv.conf
PlainHost == platform = "unix" /\ resolv_conf = ResolvConf(<<>>)

\* DNSClient::new(servers) of the client c
new(c, servers) ==
    /\ client = c
    /\ upstream_servers = servers
    /\ force_tcp = FALSE
    /\ local_v4_addr = AnyV4
    /\ local_v6_addr = AnyV6
    /\ script = <<>>
    /\ tasks = <<>>
    /\ sockets = {}
    /\ pc = "idle"
    /\ callers = <<>>
    /\ query = Garbage
    /\ tid_masking = FALSE
    /\ tid = 0
    /\ masked_tid = 0
    /\ ip = <<>>
    /\ ptr_answers = <<>>
    /\ rest = <<>>
    /\ names = <<>>
    /\ fwd_name = <<>>
    /\ fwd = <<>>
    /\ valid_query = Garbage
    /\ query_tid = 0
    /\ query_question = NoQuestion
    /\ idx = 0
    /\ response = Garbage
    /\ exchanges = <<>>
    /\ attempts = <<>>
    /\ resolved = NoPktResult
    /\ result = NoResult

Init ==
    \E c \in {"sync", "async"}, servers \in SeqUpTo(UpstreamServer, MaxServers) :
       /\ new(c, servers)
       /\ PlainHost

\* query_ptr exists in the blocking client only
InitPtr ==
    /\ \E servers \in SeqUpTo(UpstreamServer, MaxPtrServers) : new("sync", servers)
    /\ PlainHost

\* DNSClient::force_tcp(&mut self, force_tcp): only the blocking client has it
set_force_tcp(b) ==
    /\ pc = "idle"
    /\ client = "sync"
    /\ force_tcp' = b
    /\ UNCHANGED <<client, upstream_servers, local_v4_addr, local_v6_addr, pc,
                   engine_vars, call_vars, resolved, result, conc_vars, host_vars>>

(***************************************************************************)
(* The result extractors' decoders.                                        *)
(***************************************************************************)
\* query_txt's inner loops: pos is the next index the byte iterator yields.
\* A length byte is followed by that many pushes, each failing if no byte is left.
RECURSIVE txt_chunks(_, _, _)
txt_chunks(data, pos, txt) ==
    IF pos > Len(data)
    THEN [ok |-> TRUE, txt |-> txt]
    ELSE LET len == data[pos] IN
         IF pos + len > Len(data)
         THEN [ok |-> FALSE, txt |-> <<>>]
         ELSE txt_chunks(data, pos + len + 1, txt \o SubSeq(data, pos + 1, pos + len))

RECURSIVE txt_chunks_lenient(_, _, _)
txt_chunks_lenient(data, pos, txt) ==
    IF pos > Len(data)
    THEN [ok |-> TRUE, txt |-> txt]
    ELSE LET len == data[pos]
             last == IF pos + len > Len(data) THEN Len(data) ELSE pos + len
         IN  txt_chunks_lenient(data, last + 1, txt \o SubSeq(data, pos + 1, last))

decode_txt_lenient(data) == txt_chunks_lenient(data, 1, <<>>)

\* The decoding of one record's data
decode_txt(data) == txt_chunks(data, 1, <<>>)

\* query_txt's loop over the answer section.  The blocking client skips the
\* records that are not IN TXT; the async client decodes every Data record.
RECURSIVE txt_records(_, _, _)
txt_records(c, answers, txts) ==
    IF answers = <<>>
    THEN Ok(txts)
    ELSE LET item == Head(answers) IN
         IF c = "sync" /\ (item.class # "IN" \/ item.type # "TXT")
         THEN txt_records(c, Tail(answers), txts)
         ELSE IF rr_rd(item).variant = "Data"
         THEN LET d == decode_txt(rr_rd(item).data) IN
              IF ~d.ok
              THEN Err("InvalidInput", "Invalid text record")
              ELSE txt_records(c, Tail(answers), Append(txts, d.txt))
         ELSE txt_records(c, Tail(answers), txts)

\* query_rrs_data's loop over the answer section.  The blocking client skips
\* the records of another class or type; the async client has no such test.
RECURSIVE rrs_data(_, _, _, _, _)
rrs_data(c, answers, rr_class, rr_type, raw_rrs) ==
    IF answers = <<>>
    THEN Ok(raw_rrs)
    ELSE LET item == Head(answers) IN
         IF c = "sync" /\ (item.class # rr_class \/ item.type # rr_type)
         THEN rrs_data(c, Tail(answers), rr_class, rr_type, raw_rrs)
         ELSE IF rr_rd(item).variant = "Data"
         THEN rrs_data(c, Tail(answers), rr_class, rr_type,
                       Append(raw_rrs, rr_rd(item).data))
         ELSE rrs_data(c, Tail(answers), rr_class, rr_type, raw_rrs)

\* query_ptr's inner loops: labels joined with '.'
RECURSIVE name_labels(_, _, _)
name_labels(data, pos, name) ==
    IF pos > Len(data)
    THEN [ok |-> TRUE, name |-> name]
    ELSE LET len == data[pos]
             sep == IF len # 0 /\ name # <<>> THEN <<Dot>> ELSE <<>>
         IN  IF pos + len > Len(data)
             THEN [ok |-> FALSE, name |-> <<>>]
             ELSE name_labels(data, pos + len + 1,
                              name \o sep \o SubSeq(data, pos + 1, pos + len))

decode_name(data) ==
    LET d == name_labels(data, 1, <<>>) IN
    IF d.ok /\ d.name = <<>> THEN [ok |-> TRUE, name |-> <<Dot>>] ELSE d

RECURSIVE collect_ips_any_family(_, _)
collect_ips_any_family(family, answers) ==
    IF answers = <<>>
    THEN <<>>
    ELSE (IF rr_ip(Head(answers)).ok THEN <<rr_ip(Head(answers)).addr>> ELSE <<>>)
         \o collect_ips_any_family(family, Tail(answers))

\* query_a / query_aaaa's loop: the addresses of the requested family
RECURSIVE collect_ips(_, _)
collect_ips(family, answers) ==
    IF answers = <<>>
    THEN <<>>
    ELSE LET item == Head(answers)
             a == rr_ip(item)
         IN  (IF a.ok /\ a.family = family THEN <<a.addr>> ELSE <<>>)
             \o collect_ips(family, Tail(answers))

\* ips.shuffle(&mut rand::thread_rng()): any permutation
shuffle(s) == {[i \in 1..Len(s) |-> s[perm[i]]] : perm \in Permutations(1..Len(s))}

\* What query_a ("A") or query_aaaa ("AAAA") may return for the response p
addr_results(c, op, p) ==
    LET ips == collect_ips(IF op = "query_a" THEN "V4" ELSE "V6", p.answers) IN
    IF c = "sync" THEN shuffle(ips) ELSE {ips}

contains(s, x) == \E i \in 1..Len(s) : s[i] = x

\* x.to_string() of an octet
RECURSIVE to_string(_)
to_string(n) ==
    IF n < 10 THEN <<48 + n>> ELSE to_string(n \div 10) \o <<48 + (n % 10)>>

reverse(s) == [i \in 1..Len(s) |-> s[Len(s) + 1 - i]]

RECURSIVE join(_, _)
join(strs, sep) ==
    IF strs = <<>> THEN <<>>
    ELSE IF Len(strs) = 1 THEN strs[1]
    ELSE strs[1] \o sep \o join(Tail(strs), sep)

InAddrArpa == <<46, 105, 110, 45, 97, 100, 100, 114, 46, 97, 114, 112, 97>>
Ip6Arpa == <<46, 105, 112, 54, 46, 97, 114, 112, 97>>

\* query_ptr's reverse name.  An address is its octets: 4 of them for IpAddr::V4.
rev_name(addr) ==
    LET octets == reverse(addr)
        rev == join([i \in 1..Len(octets) |-> to_string(octets[i])], <<Dot>>)
    IN  IF Len(addr) = 4 THEN rev \o InAddrArpa ELSE rev \o Ip6Arpa

RECURSIVE ptr_scan_skip_truncated(_)
ptr_scan_skip_truncated(answers) ==
    IF answers = <<>>
    THEN [kind |-> "end", name |-> <<>>, rest |-> <<>>]
    ELSE LET item == Head(answers) IN
         IF item.class # "IN" \/ item.type # "PTR"
         THEN ptr_scan_skip_truncated(Tail(answers))
         ELSE IF rr_rd(item).variant # "Data"
         THEN ptr_scan_skip_truncated(Tail(answers))
         ELSE LET d == decode_name(rr_rd(item).data) IN
              IF ~d.ok \/ ~Utf8(d.name)
              THEN ptr_scan_skip_truncated(Tail(answers))
              ELSE [kind |-> "lookup", name |-> d.name, rest |-> Tail(answers)]

\* query_ptr's loop over the answer section, up to the next forward lookup:
\* "end" (the loop is over), "err" (a truncated label) or "lookup" (name is to be
\* confirmed, rest are the records after it).
RECURSIVE ptr_scan(_)
ptr_scan(answers) ==
    IF answers = <<>>
    THEN [kind |-> "end", name |-> <<>>, rest |-> <<>>]
    ELSE LET item == Head(answers) IN
         IF item.class # "IN" \/ item.type # "PTR"
         THEN ptr_scan(Tail(answers))
         ELSE IF rr_rd(item).variant # "Data"
         THEN ptr_scan(Tail(answers))
         ELSE LET d == decode_name(rr_rd(item).data) IN
              IF ~d.ok
              THEN [kind |-> "err", name |-> <<>>, rest |-> <<>>]
              ELSE IF ~Utf8(d.name)
              THEN ptr_scan(Tail(answers))
              ELSE [kind |-> "lookup", name |-> d.name, rest |-> Tail(answers)]

(***************************************************************************)
(* The resolution engine.                                                  *)
(***************************************************************************)
\* The locals of the public operations on the stack, and of the engine.
Ctx == [callers |-> callers, query |-> query, tid_masking |-> tid_masking, tid |-> tid,
        masked_tid |-> masked_tid, ip |-> ip, ptr_answers |-> ptr_answers,
        rest |-> rest, names |-> names, fwd_name |-> fwd_name, fwd |-> fwd]

Eng == [valid_query |-> valid_query, query_tid |-> query_tid,
        query_question |-> query_question, idx |-> idx, response |-> response,
        exchanges |-> exchanges, attempts |-> attempts]

\* The public operation returns r; res is what its latest resolution returned.
Finished(r, res, ctx, eng) ==
    /\ pc' = "done"
    /\ result' = r
    /\ resolved' = res
    /\ SetCall(ctx)
    /\ SetEngine(eng)

invalid_query_no_qr(parsed_query) == parsed_query.question = NoQuestion

\* query_from_parsed_query's test of the query
invalid_query(parsed_query) ==
    parsed_query.question = NoQuestion \/ DNS_FLAG_QR \in parsed_query.flags

\* query_from_parsed_query, from its start to the first exchange.  Every caller
\* passes its error on with `?`.
query_from_parsed_query(parsed_query, ctx) ==
    LET qtid == parsed_query.tid
        qquestion == parsed_query.question
        no_question == ErrPkt("InvalidInput", "No DNS question")
        no_response == ErrPkt("InvalidInput", "No response received from any servers")
        eng == [NoEngine EXCEPT !.query_tid = qtid, !.query_question = qquestion]
    IN  IF invalid_query(parsed_query)
        THEN Finished(Err(no_question.kind, no_question.msg), no_question, ctx, eng)
        ELSE LET valid == into_packet(parsed_query) IN
             IF upstream_servers = <<>>
             THEN Finished(Err(no_response.kind, no_response.msg), no_response, ctx,
                           [eng EXCEPT !.valid_query = valid])
             ELSE /\ pc' = "exchange"
                  /\ SetEngine([eng EXCEPT !.valid_query = valid, !.idx = 1])
                  /\ SetCall(ctx)
                  /\ resolved' = NoPktResult
                  /\ result' = NoResult

query_raw_return_masked(p, ctx) == Ok(into_packet(p))

\* query_raw, after query_from_parsed_query returned Ok(p)
query_raw_return(p, ctx) ==
    LET parsed_response == IF ctx.tid_masking THEN set_tid(p, ctx.tid) ELSE p
    IN  Ok(into_packet(parsed_response))

\* query_ptr's loop over the answer records `answers`, up to its return or to
\* the first exchange of the next forward lookup (query_a or query_aaaa)
ptr_loop(answers, ctx, res, eng) ==
    LET scan == ptr_scan(answers)
        v4 == Len(ctx.ip) = 4
    IN  CASE scan.kind = "end" -> Finished(Ok(ctx.names), res, ctx, eng)
          [] scan.kind = "err" ->
               Finished(Err("InvalidInput", "Invalid text record"), res, ctx, eng)
          [] scan.kind = "lookup" ->
               \E t \in Tids :
                  LET q == gen_query(scan.name, IF v4 THEN "A" ELSE "AAAA", "IN", t)
                      nctx == [ctx EXCEPT
                                 !.callers = <<"query_ptr", IF v4 THEN "query_a"
                                                            ELSE "query_aaaa">>,
                                 !.rest = scan.rest,
                                 !.fwd_name = scan.name]
                  IN  IF ~q.ok
                      THEN Finished(Err(q.kind, q.msg), res, nctx, eng)
                      ELSE query_from_parsed_query(q.pkt, nctx)

ptr_confirm_unchecked(ips, ctx) ==
    [ctx EXCEPT !.callers = <<"query_ptr">>,
                !.names = Append(@, ctx.fwd_name),
                !.fwd = Append(@, [name |-> ctx.fwd_name, ips |-> ips]),
                !.fwd_name = <<>>,
                !.rest = <<>>]

\* query_ptr, after the forward lookup of ctx.fwd_name returned Ok(ips)
ptr_confirm(ips, ctx) ==
    [ctx EXCEPT !.callers = <<"query_ptr">>,
                !.names = IF contains(ips, ctx.ip) THEN Append(@, ctx.fwd_name) ELSE @,
                !.fwd = Append(@, [name |-> ctx.fwd_name, ips |-> ips]),
                !.fwd_name = <<>>,
                !.rest = <<>>]

\* query_from_parsed_query returns res to the operation on top of the stack.
Returned(res, ctx, eng) ==
    IF ~res.ok
    THEN Finished(Err(res.kind, res.msg), res, ctx, eng)
    ELSE LET top == ctx.callers[Len(ctx.callers)] IN
         CASE top = "query_raw" ->
                Finished(query_raw_return(res.pkt, ctx), res, ctx, eng)
           [] top \in {"query_a", "query_aaaa"} ->
                \E ips \in addr_results(client, top, res.pkt) :
                   IF Len(ctx.callers) = 1
                   THEN Finished(Ok(ips), res, ctx, eng)
                   ELSE ptr_loop(ctx.rest, ptr_confirm(ips, ctx), res, eng)
           [] top = "query_txt" ->
                Finished(txt_records(client, res.pkt.answers, <<>>), res, ctx, eng)
           [] top = "query_ptr" ->
                ptr_loop(res.pkt.answers, [ctx EXCEPT !.ptr_answers = res.pkt.answers],
                         res, eng)
           [] top = "query_rrs_data" ->
                \* rr_type and rr_class are the ones the query was built with
                Finished(rrs_data(client, res.pkt.answers, eng.query_question[3],
                                  eng.query_question[2], <<>>), res, ctx, eng)

validate_tid_only(parsed_response, qtid, qquestion) ==
    IF parsed_response.tid # qtid
    THEN ErrPkt("PermissionDenied", "Unexpected response")
    ELSE OkPkt(parsed_response)

validate_requires_qr(parsed_response, qtid, qquestion) ==
    IF \/ parsed_response.tid # qtid
       \/ parsed_response.question # qquestion
       \/ DNS_FLAG_QR \notin parsed_response.flags
    THEN ErrPkt("PermissionDenied", "Unexpected response")
    ELSE OkPkt(parsed_response)

validate_question_only(parsed_response, qtid, qquestion) ==
    IF parsed_response.question # qquestion
    THEN ErrPkt("PermissionDenied", "Unexpected response")
    ELSE OkPkt(parsed_response)

\* The check at the end of send_query_to_upstream_server
validate(parsed_response, qtid, qquestion) ==
    IF parsed_response.tid # qtid \/ parsed_response.question # qquestion
    THEN ErrPkt("PermissionDenied", "Unexpected response")
    ELSE OkPkt(parsed_response)

NoResponse == ErrPkt("InvalidInput", "No response received from any servers")

\* The for loop goes on to server idx + 1.
NextServer(eng) ==
    /\ pc' = "exchange"
    /\ SetEngine([eng EXCEPT !.idx = idx + 1, !.response = Garbage])
    /\ UNCHANGED <<call_vars, resolved, result>>

ServerDone_no_return(res, ex, resp) ==
    LET eng == [Eng EXCEPT !.exchanges = ex, !.attempts = Append(attempts, res),
                           !.response = resp]
    IN  IF idx < Len(upstream_servers)
        THEN NextServer(eng)
        ELSE IF res.ok
        THEN Returned(res, Ctx, eng)
        ELSE Returned(NoResponse, Ctx, [eng EXCEPT !.response = Garbage])

ServerDone_last_error(res, ex, resp) ==
    LET eng == [Eng EXCEPT !.exchanges = ex, !.attempts = Append(attempts, res),
                           !.response = resp]
    IN  IF res.ok
        THEN Returned(res, Ctx, eng)
        ELSE IF idx < Len(upstream_servers)
        THEN NextServer(eng)
        ELSE Returned(res, Ctx, [eng EXCEPT !.response = Garbage])

ServerDone_abort_on_denied(res, ex, resp) ==
    LET eng == [Eng EXCEPT !.exchanges = ex, !.attempts = Append(attempts, res),
                           !.response = resp]
    IN  IF res.ok
        THEN Returned(res, Ctx, eng)
        ELSE IF res.kind = "PermissionDenied"
        THEN Returned(res, Ctx, [eng EXCEPT !.response = Garbage])
        ELSE IF idx < Len(upstream_servers)
        THEN NextServer(eng)
        ELSE Returned(NoResponse, Ctx, [eng EXCEPT !.response = Garbage])

\* send_query_to_upstream_server returned res for server idx: the body of the
\* for loop of query_from_parsed_query, and what follows the loop.
ServerDone(res, ex, resp) ==
    LET eng == [Eng EXCEPT !.exchanges = ex, !.attempts = Append(attempts, res),
                           !.response = resp]
    IN  IF res.ok
        THEN Returned(res, Ctx, eng)
        ELSE IF idx < Len(upstream_servers)
        THEN NextServer(eng)
        ELSE Returned(NoResponse, Ctx, [eng EXCEPT !.response = Garbage])

FirstProto_udp == "udp"

\* The transport of the first exchange with a server
FirstProto == IF client = "sync" /\ force_tcp THEN "tcp" ELSE "udp"

Escalates_never(parsed_response) == FALSE

Escalates_always(parsed_response) == TRUE

Escalates_sync_only(parsed_response) ==
    client = "sync" /\ ~force_tcp /\ DNS_FLAG_TC \in parsed_response.flags

Escalates_inverted(parsed_response) ==
    force_tcp /\ DNS_FLAG_TC \in parsed_response.flags

\* Whether a parsed first reply is redone over TCP
Escalates(parsed_response) ==
    IF client = "sync"
    THEN ~force_tcp /\ DNS_FLAG_TC \in parsed_response.flags
    ELSE DNS_FLAG_TC \in parsed_response.flags

\* What the history keeps of an exchange
Exchange(server, proto, r) ==
    [server |-> server, proto |-> proto,
     reply |-> IF ~r.ok THEN "error" ELSE IF ~r.bytes.parses THEN "garbage" ELSE "message",
     tc |-> r.ok /\ r.bytes.parses /\ DNS_FLAG_TC \in r.bytes.pkt.flags,
     tid |-> IF r.ok /\ r.bytes.parses THEN r.bytes.pkt.tid ELSE -1,
     matches |-> /\ r.ok
                 /\ r.bytes.parses
                 /\ r.bytes.pkt.tid = valid_query.pkt.tid
                 /\ r.bytes.pkt.question = valid_query.pkt.question]

Received_validate_first(r, ex, escalate) ==
    IF ~r.ok
    THEN ServerDone(ErrPkt(r.kind, r.msg), ex, Garbage)
    ELSE LET p == parse(r.bytes) IN
         IF ~p.ok
         THEN ServerDone(p, ex, Garbage)
         ELSE IF ~validate(p.pkt, query_tid, query_question).ok
         THEN ServerDone(validate(p.pkt, query_tid, query_question), ex, r.bytes)
         ELSE IF escalate /\ Escalates(p.pkt)
         THEN /\ pc' = "tcp"
              /\ SetEngine([Eng EXCEPT !.exchanges = ex, !.response = Garbage])
              /\ UNCHANGED <<call_vars, resolved, result>>
         ELSE ServerDone(validate(p.pkt, query_tid, query_question), ex, r.bytes)

\* send_query_to_upstream_server after an exchange returned r
Received(r, ex, escalate) ==
    IF ~r.ok
    THEN ServerDone(ErrPkt(r.kind, r.msg), ex, Garbage)
    ELSE LET p == parse(r.bytes) IN
         IF ~p.ok
         THEN ServerDone(p, ex, Garbage)
         ELSE IF escalate /\ Escalates(p.pkt)
         THEN /\ pc' = "tcp"
              /\ SetEngine([Eng EXCEPT !.exchanges = ex, !.response = Garbage])
              /\ UNCHANGED <<call_vars, resolved, result>>
         ELSE ServerDone(validate(p.pkt, query_tid, query_question), ex, r.bytes)

\* send_query_to_upstream_server, from its start to the TC test
first_exchange ==
    /\ pc = "exchange"
    /\ UNCHANGED <<cfg_vars, conc_vars, host_vars>>
    /\ \E r \in (IF FirstProto = "tcp"
                 THEN dns_exchange_tcp(client, valid_query)
                 ELSE dns_exchange_udp(client, valid_query)) :
          Received(r, Append(exchanges, Exchange(idx, FirstProto, r)), TRUE)

\* send_query_to_upstream_server, the TCP exchange after a truncated reply
tcp_exchange ==
    /\ pc = "tcp"
    /\ UNCHANGED <<cfg_vars, conc_vars, host_vars>>
    /\ \E r \in dns_exchange_tcp(client, valid_query) :
          Received(r, Append(exchanges, Exchange(idx, "tcp", r)), FALSE)

(***************************************************************************)
(* dns_exchange_tcp at the level of the bytes of the connection.  A server *)
(* writes zero, one or two bytes of length prefix, then some bytes of      *)
(* message, and closes the connection.                                     *)
(***************************************************************************)
\* dnssector::constants::DNS_MAX_COMPRESSED_SIZE
DNS_MAX_COMPRESSED_SIZE == 4096

\* The values of the bytes of a length prefix: 16 * 256 is DNS_MAX_COMPRESSED_SIZE
LenBytes == {0, 16, 255}

\* response_len: the two bytes of the prefix, the most significant first
response_len_of(response_len_bytes) ==
    response_len_bytes[1] * 256 + response_len_bytes[2]

\* The number of message bytes a server writes after the prefix
StreamSizes(response_len_bytes) ==
    IF Len(response_len_bytes) < 2
    THEN {0}
    ELSE LET n == response_len_of(response_len_bytes)
         IN  {m \in {n - 1, n, n + 1} : m >= 0}

\* The messages a server writes: bytes that do not parse, or a reply to the
\* query with or without its question
StreamMessages(sent) ==
    {Garbage} \cup
    {Wire(ParsedPacket(sent.pkt.tid, {DNS_FLAG_QR}, rq, <<>>)) :
        rq \in {sent.pkt.question, NoQuestion}}

\* len_bytes then size bytes which, read whole, are msg; no bytes are no message
TcpStreams(sent) ==
    {st \in UNION {[len_bytes : {l}, size : StreamSizes(l), msg : StreamMessages(sent)] :
                     l \in SeqUpTo(LenBytes, 2)} :
        st.size = 0 => st.msg = Garbage}

read_response_unchecked(stream) ==
    IF Len(stream.len_bytes) < 2
    THEN [r |-> ErrBytes("UnexpectedEof", "failed to fill whole buffer"),
          consumed |-> Len(stream.len_bytes)]
    ELSE LET response_len == response_len_of(stream.len_bytes) IN
         IF stream.size < response_len
         THEN [r |-> ErrBytes("UnexpectedEof", "failed to fill whole buffer"),
               consumed |-> 2 + stream.size]
         ELSE [r |-> OkBytes(IF stream.size = response_len THEN stream.msg ELSE Garbage),
               consumed |-> 2 + response_len]

\* dns_exchange_tcp from the first read_exact on: its result, and the number of
\* bytes of the stream it has read.  The bytes of a message cut short do not parse.
read_response(stream) ==
    IF Len(stream.len_bytes) < 2
    THEN [r |-> ErrBytes("UnexpectedEof", "failed to fill whole buffer"),
          consumed |-> Len(stream.len_bytes)]
    ELSE LET response_len == response_len_of(stream.len_bytes) IN
         IF response_len > DNS_MAX_COMPRESSED_SIZE
         THEN [r |-> ErrBytes("InvalidData", "Response too large"), consumed |-> 2]
         ELSE IF stream.size < response_len
         THEN [r |-> ErrBytes("UnexpectedEof", "failed to fill whole buffer"),
               consumed |-> 2 + stream.size]
         ELSE [r |-> OkBytes(IF stream.size = response_len THEN stream.msg ELSE Garbage),
               consumed |-> 2 + response_len]

\* The outcomes of dns_exchange_tcp that come before the first read, with no stream
NoStream == [len_bytes |-> <<>>, size |-> 0, msg |-> Garbage]

\* send_query_to_upstream_server's TCP exchange, first or after a truncated reply,
\* with the bytes of the connection
tcp_stream_exchange ==
    /\ pc = "tcp" \/ (pc = "exchange" /\ FirstProto = "tcp")
    /\ UNCHANGED <<cfg_vars, conc_vars, host_vars>>
    /\ \E io \in {[r |-> ErrBytes("ConnectionRefused", "connect"), consumed |-> 0,
                    stream |-> NoStream]}
                 \cup (IF client = "async"
                       THEN {[r |-> ErrBytes("TimedOut", "future timed out"),
                              consumed |-> 0, stream |-> NoStream]}
                       ELSE {})
                 \cup {[r |-> read_response(s).r, consumed |-> read_response(s).consumed,
                        stream |-> s] : s \in TcpStreams(valid_query)} :
          Received(io.r,
                   Append(exchanges,
                          Exchange(idx, "tcp", io.r)
                             @@ [stream |-> io.stream, consumed |-> io.consumed]),
                   pc = "exchange")

(***************************************************************************)
(* The public operations.                                                  *)
(***************************************************************************)
RawName == <<97>>

\* The raw queries a caller of the model passes to query_raw
RawQueries ==
    {Garbage} \cup
    {Wire(ParsedPacket(t, f, q, <<>>)) :
        t \in Tids, f \in SUBSET {DNS_FLAG_QR},
        q \in {NoQuestion, Question(RawName, "MX", "IN")}}

\* The names a caller of the model asks for: "a" and ".."
TypedNames == {<<97>>, <<Dot, Dot>>}

\* The addresses a caller of the model passes to query_ptr
PtrAddrs == {Ipv4a, Ipv4c, Ipv6a}

query_raw(bytes, masking) ==
    /\ pc = "idle"
    /\ UNCHANGED <<cfg_vars, conc_vars, host_vars>>
    /\ LET parsed == parse(bytes)
           ctx == [NoCall EXCEPT !.callers = <<"query_raw">>, !.query = bytes,
                                 !.tid_masking = masking]
       IN  IF ~parsed.ok
           THEN Finished(Err(parsed.kind, parsed.msg), NoPktResult, ctx, NoEngine)
           ELSE IF masking
           THEN \E rnd \in Tids :
                   query_from_parsed_query(set_tid(parsed.pkt, rnd),
                                           [ctx EXCEPT !.tid = parsed.pkt.tid,
                                                       !.masked_tid = rnd])
           ELSE query_from_parsed_query(parsed.pkt, ctx)

\* query_a, query_aaaa, query_txt: op is the operation, rr_type its record type
typed_query(op, rr_type, name) ==
    /\ pc = "idle"
    /\ UNCHANGED <<cfg_vars, conc_vars, host_vars>>
    /\ \E t \in Tids :
          LET q == gen_query(name, rr_type, "IN", t)
              ctx == [NoCall EXCEPT !.callers = <<op>>]
          IN  IF ~q.ok
              THEN Finished(Err(q.kind, q.msg), NoPktResult, ctx, NoEngine)
              ELSE query_from_parsed_query(q.pkt, ctx)

query_a(name) == typed_query("query_a", "A", name)

query_aaaa(name) == typed_query("query_aaaa", "AAAA", name)

query_txt(name) == typed_query("query_txt", "TXT", name)

RrsClasses == {"IN", "CH"}

RrsTypes == {"NS"}

\* query_rrs_data(name, query_class, query_type) up to the first exchange
query_rrs_data(name, query_class, query_type) ==
    /\ pc = "idle"
    /\ UNCHANGED <<cfg_vars, conc_vars, host_vars>>
    /\ \E t \in Tids :
          LET q == gen_query(name, query_type, query_class, t)
              ctx == [NoCall EXCEPT !.callers = <<"query_rrs_data">>]
          IN  IF ~q.ok
              THEN Finished(Err(q.kind, q.msg), NoPktResult, ctx, NoEngine)
              ELSE query_from_parsed_query(q.pkt, ctx)

\* query_ptr: the blocking client only
query_ptr(addr) ==
    /\ pc = "idle"
    /\ client = "sync"
    /\ UNCHANGED <<cfg_vars, conc_vars, host_vars>>
    /\ \E t \in Tids :
          LET q == gen_query(rev_name(addr), "PTR", "IN", t)
              ctx == [NoCall EXCEPT !.callers = <<"query_ptr">>, !.ip = addr]
          IN  IF ~q.ok
              THEN Finished(Err(q.kind, q.msg), NoPktResult, ctx, NoEngine)
              ELSE query_from_parsed_query(q.pkt, ctx)

\* The engine under raw queries
Next ==
    \/ \E b \in BOOLEAN : set_force_tcp(b)
    \/ \E bytes \in RawQueries, masking \in BOOLEAN : query_raw(bytes, masking)
    \/ first_exchange
    \/ tcp_exchange

Spec == Init /\ [][Next]_vars

\* Reverse lookups with their forward confirmations
NextPtr ==
    \/ \E b \in BOOLEAN : set_force_tcp(b)
    \/ \E addr \in PtrAddrs : query_ptr(addr)
    \/ first_exchange
    \/ tcp_exchange

SpecPtr == InitPtr /\ [][NextPtr]_vars

\* The engine under raw queries, with the bytes of the TCP connections
NextTcp ==
    \/ \E b \in BOOLEAN : set_force_tcp(b)
    \/ \E bytes \in {b \in RawQueries : b.pkt.tid = 0} : query_raw(bytes, FALSE)
    \/ FirstProto = "udp" /\ first_exchange
    \/ tcp_stream_exchange

SpecTcp == Init /\ [][NextTcp]_vars

(***************************************************************************)
(* One query resolved by one implementation, then by the other, against    *)
(* servers that behave in the same way for both.                           *)
(***************************************************************************)
\* What a server does with an exchange: it stays silent, or it answers bytes
ServerReplies ==
    {Garbage} \cup
    {Wire(ParsedPacket(t, f, Question(RawName, "MX", "IN"), <<>>)) :
        t \in Tids, f \in {{DNS_FLAG_QR}, {DNS_FLAG_QR, DNS_FLAG_TC}}}

Silent == [silent |-> TRUE, bytes |-> Garbage]

ExchangeBehaviours == {Silent} \cup {[silent |-> FALSE, bytes |-> b] : b \in ServerReplies}

\* What a server does with the UDP and with the TCP exchange of an attempt.  The
\* TCP entries that no engine can read, after a UDP reply without TC, are left out.
ServerBehaviours ==
    {b \in [udp : ExchangeBehaviours, tcp : ExchangeBehaviours] :
        (b.udp.silent \/ ~b.udp.bytes.parses \/ DNS_FLAG_TC \notin b.udp.bytes.pkt.flags)
            => b.tcp = Silent}

\* What the backend of the client c returns for an exchange the server treats
\* as b: the blocking recv and read_exact time out with the socket's read
\* timeout, the async ones are cancelled by io::timeout
backend_result(c, proto, b) ==
    IF ~b.silent
    THEN OkBytes(b.bytes)
    ELSE IF c = "async"
    THEN ErrBytes("TimedOut", "future timed out")
    ELSE IF proto = "udp"
    THEN ErrBytes("WouldBlock", "Timeout")
    ELSE ErrBytes("WouldBlock", "read timed out")

\* The behaviour of the servers is fixed before the first call
servers_behave(sc) ==
    /\ pc = "idle"
    /\ tasks = <<>>
    /\ script = <<>>
    /\ script' = sc
    /\ UNCHANGED <<cfg_vars, pc, engine_vars, call_vars, resolved, result, tasks, sockets, host_vars>>

\* send_query_to_upstream_server's exchanges, against servers that follow script
scripted_exchange ==
    /\ pc \in {"exchange", "tcp"}
    /\ UNCHANGED <<cfg_vars, conc_vars, host_vars>>
    /\ LET proto == IF pc = "tcp" THEN "tcp" ELSE FirstProto
           r == backend_result(client, proto, script[idx][proto])
       IN  Received(r, Append(exchanges, Exchange(idx, proto, r)), pc = "exchange")

\* The (server, transport) pairs of the exchanges of a resolution
Transports(ex) == [k \in 1..Len(ex) |-> <<ex[k].server, ex[k].proto>>]

\* The call has returned; DNSClient::new(upstream_servers) of the other
\* implementation takes over, and what the first call did is kept
other_client ==
    /\ pc = "done"
    /\ tasks = <<>>
    /\ tasks' = <<[client |-> client, query |-> query, exchanges |-> Transports(exchanges),
                   attempts |-> attempts, resolved |-> resolved, result |-> result]>>
    /\ client' = IF client = "sync" THEN "async" ELSE "sync"
    /\ force_tcp' = FALSE
    /\ pc' = "idle"
    /\ SetCall(NoCall)
    /\ SetEngine(NoEngine)
    /\ resolved' = NoPktResult
    /\ result' = NoResult
    /\ UNCHANGED <<upstream_servers, local_v4_addr, local_v6_addr, script, sockets, host_vars>>

NextEq ==
    \/ /\ script = <<>>
       /\ \E sc \in [1..Len(upstream_servers) -> ServerBehaviours] : servers_behave(sc)
    \/ \E bytes \in RawQueries :
          /\ Len(script) = Len(upstream_servers)
          /\ tasks # <<>> => bytes = tasks[1].query
          /\ query_raw(bytes, FALSE)
    \/ scripted_exchange
    \/ other_client

SpecEq == Init /\ [][NextEq]_vars

(***************************************************************************)
(* The system resolvers (system.rs).                                       *)
(***************************************************************************)
MaxLines == 2

\* The lines of a resolv.conf, trimmed and split at white space
ConfLines ==
    {<<>>,
     <<"#", "nameserver", "1.0.0.1">>,
     <<"search", "example.com">>,
     <<"nameserver">>,
     <<"nameserver", "bogus">>,
     <<"nameserver", "1.0.0.1">>,
     <<"nameserver", "2606:4700::1111", "1.0.0.1">>,
     <<"nameservers", "1.0.0.1">>}

ResolvConfs ==
    {Unreadable("NotFound"), Unreadable("PermissionDenied")}
    \cup {ResolvConf(l) : l \in SeqUpTo(ConfLines, MaxLines)}

\* line.starts_with("nameserver"), on a trimmed line
starts_with_nameserver(line) ==
    line # <<>> /\ line[1] \in {"nameserver", "nameservers"}

\* addr.parse::<IpAddr>()
parse_ip(addr) ==
    CASE addr = "1.0.0.1" -> [ok |-> TRUE, family |-> "V4"]
      [] addr = "2606:4700::1111" -> [ok |-> TRUE, family |-> "V6"]
      [] OTHER -> [ok |-> FALSE, family |-> ""]

RECURSIVE conf_servers(_, _)
\* default_resolvers: the for loop over data.lines()
conf_servers(lines, upstream_servers_) ==
    IF lines = <<>>
    THEN upstream_servers_
    ELSE LET line == Head(lines) IN
         IF ~starts_with_nameserver(line) \/ Len(line) < 2 \/ ~parse_ip(line[2]).ok
         THEN conf_servers(Tail(lines), upstream_servers_)
         ELSE conf_servers(Tail(lines),
                           Append(upstream_servers_,
                                  [addr |-> [family |-> parse_ip(line[2]).family,
                                             host |-> line[2], port |-> 53]]))

\* system::default_resolvers() of a build for the platform pf
default_resolvers_of(pf, conf) ==
    IF pf # "unix"
    THEN Err("NotFound",
             "System resolvers are not supported by the software on this platform")
    ELSE IF ~conf.readable
    THEN Err(conf.kind, "read_to_string")
    ELSE IF conf_servers(conf.lines, <<>>) = <<>>
    THEN Err("NotFound", "No upstream servers found")
    ELSE Ok(conf_servers(conf.lines, <<>>))

\* A call of system::default_resolvers()
default_resolvers ==
    /\ pc = "idle"
    /\ pc' = "done"
    /\ SetCall([NoCall EXCEPT !.callers = <<"default_resolvers">>])
    /\ result' = default_resolvers_of(platform, resolv_conf)
    /\ UNCHANGED <<cfg_vars, engine_vars, resolved, conc_vars, host_vars>>

\* DNSClient::new_with_system_resolvers(): the blocking client, unix builds only
new_with_system_resolvers ==
    /\ pc = "idle"
    /\ client = "sync"
    /\ platform = "unix"
    /\ pc' = "done"
    /\ SetCall([NoCall EXCEPT !.callers = <<"new_with_system_resolvers">>])
    /\ LET r == default_resolvers_of(platform, resolv_conf) IN
       /\ result' = r
       /\ upstream_servers' = IF r.ok THEN r.val ELSE upstream_servers
    /\ force_tcp' = FALSE
    /\ local_v4_addr' = AnyV4
    /\ local_v6_addr' = AnyV6
    /\ UNCHANGED <<client, engine_vars, resolved, conc_vars, host_vars>>

InitSys ==
    \E c \in {"sync", "async"}, pf \in {"unix", "other"}, conf \in ResolvConfs :
       /\ new(c, <<>>)
       /\ platform = pf
       /\ resolv_conf = conf

NextSys ==
    \/ default_resolvers
    \/ new_with_system_resolvers

SpecSys == InitSys /\ [][NextSys]_vars

\* The typed lookups of a client with at most one server
InitTyped ==
    \E c \in {"sync", "async"}, servers \in SeqUpTo(UpstreamServer, MaxPtrServers) :
       /\ new(c, servers)
       /\ PlainHost

NextTyped ==
    \/ \E b \in BOOLEAN : set_force_tcp(b)
    \/ \E name \in TypedNames : query_a(name)
    \/ \E name \in TypedNames : query_aaaa(name)
    \/ \E name \in TypedNames, query_class \in RrsClasses, query_type \in RrsTypes :
          query_rrs_data(name, query_class, query_type)
    \/ first_exchange
    \/ tcp_exchange

SpecTyped == InitTyped /\ [][NextTyped]_vars

(***************************************************************************)
(* query_txt's decoding of a validated response, as a function of the      *)
(* response: the inputs are drawn by InitTxt, query_txt_extract applies    *)
(* the loop over the answer section.                                       *)
(***************************************************************************)
TxtExample == <<3, 97, 98, 99, 2, 100, 101>>

TxtTruncated == <<5, 97, 98, 99>>

TxtDatas == SeqUpTo(0..MaxTxtByte, MaxTxtLen) \cup {TxtExample, TxtTruncated}

\* The records that may surround the IN TXT record in the answer section
TxtOthers == SeqUpTo({CnameRR, RR("CH", "TXT", <<2, 97>>)}, 1)

\* query_txt(name) has sent its query and query_from_parsed_query has returned
\* the validated response p of the only server.
txt_resolved(c, name, t, p) ==
    LET q == gen_query(name, "TXT", "IN", t).pkt IN
    /\ client = c
    /\ upstream_servers \in SeqUpTo(UpstreamServer, 1) \ {<<>>}
    /\ force_tcp = FALSE
    /\ local_v4_addr = AnyV4
    /\ local_v6_addr = AnyV6
    /\ script = <<>>
    /\ tasks = <<>>
    /\ sockets = {}
    /\ pc = "extract"
    /\ callers = <<"query_txt">>
    /\ query = Garbage
    /\ tid_masking = FALSE
    /\ tid = 0
    /\ masked_tid = 0
    /\ ip = <<>>
    /\ ptr_answers = <<>>
    /\ rest = <<>>
    /\ names = <<>>
    /\ fwd_name = <<>>
    /\ fwd = <<>>
    /\ valid_query = Wire(q)
    /\ query_tid = t
    /\ query_question = q.question
    /\ idx = 1
    /\ response = Wire(p)
    /\ exchanges = <<[server |-> 1, proto |-> "udp", reply |-> "message",
                      tc |-> FALSE, matches |-> TRUE]>>
    /\ attempts = <<OkPkt(p)>>
    /\ resolved = OkPkt(p)
    /\ result = NoResult

InitTxt ==
    \E c \in {"sync", "async"}, data \in TxtDatas, before \in TxtOthers,
       after \in TxtOthers :
       /\ txt_resolved(c, RawName, 0,
                       ParsedPacket(0, {DNS_FLAG_QR}, Question(RawName, "TXT", "IN"),
                                    before \o <<RR("IN", "TXT", data)>> \o after))
       /\ PlainHost

\* query_txt from the return of query_from_parsed_query to its own return
query_txt_extract ==
    /\ pc = "extract"
    /\ callers = <<"query_txt">>
    /\ resolved.ok
    /\ pc' = "done"
    /\ result' = txt_records(client, resolved.pkt.answers, <<>>)
    /\ UNCHANGED <<cfg_vars, engine_vars, call_vars, resolved, conc_vars, host_vars>>

NextTxt == query_txt_extract

SpecTxt == InitTxt /\ [][NextTxt]_vars

(***************************************************************************)
(* Two calls on one client, exchange by exchange.  An exchange opens its   *)
(* socket, waits for the reply and returns; the socket is a local of the   *)
(* exchange and is dropped when the exchange returns or is cancelled.      *)
(* Call 1 is a query_a and call 2 a query_aaaa: the two sub-queries of     *)
(* query_addrs, or two independent calls.  What each server answers each   *)
(* call is fixed by `script` when the calls are made.                      *)
(***************************************************************************)
Calls == {1, 2}

CallOp(t) == IF t = 1 THEN "query_a" ELSE "query_aaaa"

\* The local addresses a caller of the model may set
LocalV4Addrs == {AnyV4, [family |-> "V4", host |-> "192.0.2.1", port |-> 5353]}

LocalV6Addrs == {AnyV6, [family |-> "V6", host |-> "2001:db8::1", port |-> 5353]}

\* What a server does with the UDP and with the TCP exchange of a call.  The
\* entries that no exchange of the call can read are left out.
ScriptEntries ==
    {e \in [udp : {"fail", "good", "tc"}, tcp : {"fail", "good"}] :
        /\ FirstProto = "tcp" => e.udp = "fail"
        /\ (FirstProto = "udp" /\ e.udp # "tc") => e.tcp = "fail"}

Scripts == [Calls -> [1..Len(upstream_servers) -> ScriptEntries]]

GoodAnswers(op) ==
    IF op = "query_a"
    THEN <<RR("IN", "A", Ipv4a)>>
    ELSE <<CnameRR, RR("IN", "AAAA", Ipv6a)>>

\* The async backend's timeout cancels the exchange wherever it is suspended.
Cancelled(c) == IF c = "async" THEN {ErrBytes("TimedOut", "future timed out")} ELSE {}

\* The errors of an exchange before it waits for the reply: connect and send
\* for UDP, connect and write_all for TCP
OpenErrors(c, proto) ==
    (IF proto = "udp"
     THEN {ErrBytes("ConnectionRefused", "send")}
     ELSE {ErrBytes("ConnectionRefused", "connect"), ErrBytes("TimedOut", "connect")})
    \cup Cancelled(c)

\* The errors of an exchange that waits for the reply: a failed or timed out
\* recv for UDP; a timed out or short read, or an oversized length, for TCP
WaitErrors(c, proto) ==
    (IF proto = "udp"
     THEN {ErrBytes("WouldBlock", "Timeout")}
     ELSE {ErrBytes("WouldBlock", "read timed out"),
           ErrBytes("UnexpectedEof", "failed to fill whole buffer"),
           ErrBytes("InvalidData", "Response too large")})
    \cup Cancelled(c)

\* What the exchange of the call `task` over proto may return when the server
\* does `kind`
ScriptReplies(task, proto, kind) ==
    CASE kind = "fail" -> WaitErrors(client, proto)
      [] kind = "tc" ->
           {OkBytes(Wire(ParsedPacket(task.q.tid, {DNS_FLAG_QR, DNS_FLAG_TC},
                                      task.q.question, <<>>)))}
      [] kind = "good" ->
           {OkBytes(Wire(ParsedPacket(task.q.tid, {DNS_FLAG_QR}, task.q.question,
                                      GoodAnswers(task.op))))}

\* DNSClient::set_local_v4_addr and set_local_v6_addr
set_local_v4_addr(addr) ==
    /\ pc = "idle"
    /\ local_v4_addr' = addr
    /\ UNCHANGED <<client, upstream_servers, force_tcp, local_v6_addr, pc, engine_vars,
                   call_vars, resolved, result, conc_vars, host_vars>>

set_local_v6_addr(addr) ==
    /\ pc = "idle"
    /\ local_v6_addr' = addr
    /\ UNCHANGED <<client, upstream_servers, force_tcp, local_v4_addr, pc, engine_vars,
                   call_vars, resolved, result, conc_vars, host_vars>>

\* query_a / query_aaaa up to the first exchange
TaskStart(op, name, t) ==
    LET q == gen_query(name, IF op = "query_a" THEN "A" ELSE "AAAA", "IN", t)
        task == [op |-> op, pc |-> "done", idx |-> 0, q |-> q.pkt, proto |-> FirstProto,
                 retry |-> FALSE, res |-> NoResult, after |-> 0]
    IN  IF ~q.ok
        THEN [task EXCEPT !.res = Err(q.kind, q.msg)]
        ELSE IF invalid_query(q.pkt)
        THEN [task EXCEPT !.res = Err("InvalidInput", "No DNS question")]
        ELSE IF upstream_servers = <<>>
        THEN [task EXCEPT !.res = Err(NoResponse.kind, NoResponse.msg)]
        ELSE [task EXCEPT !.pc = "open", !.idx = 1]

\* The calls are made: "join" (the async query_addrs), "seq" (the blocking
\* query_addrs) or "threads" (two independent calls).
conc_start(mode) ==
    /\ pc = "idle"
    /\ mode = "join" => client = "async"
    /\ mode = "seq" => client = "sync"
    /\ pc' = mode
    /\ \E name \in TypedNames, t1 \in Tids, t2 \in Tids :
          tasks' = [t \in Calls |-> TaskStart(CallOp(t), name, IF t = 1 THEN t1 ELSE t2)]
    /\ script' \in Scripts
    /\ callers' = IF mode = "threads" THEN <<>> ELSE <<"query_addrs">>
    /\ UNCHANGED <<cfg_vars, engine_vars, query, tid_masking, tid, masked_tid, ip, ptr_answers,
                   rest, names,
                   fwd_name, fwd, resolved, result, sockets, host_vars>>

\* In the blocking query_addrs, query_aaaa runs once query_a has returned Ok.
Runnable(t) ==
    \/ pc \in {"join", "threads"}
    \/ pc = "seq" /\ (t = 1 \/ (tasks[1].pc = "done" /\ tasks[1].res.ok))

\* send_query_to_upstream_server: the local address of the server's family
local_addr(upstream_server) ==
    IF upstream_server.addr.family = "V4" THEN local_v4_addr ELSE local_v6_addr

\* TcpStream::connect(&upstream_server.addr): the system picks the local address
os_local_addr(upstream_server) ==
    IF upstream_server.addr.family = "V4" THEN AnyV4 ELSE AnyV6

\* UdpSocket::bind(local_addr) fails when another socket holds the same port.
AddrInUse(local) ==
    local.port # 0 /\ \E s \in sockets : s.proto = "udp" /\ s.local = local

release_on_success(t, r) == IF r.ok THEN {s \in sockets : s.owner # t} ELSE sockets

\* The exchange of call t has returned r: its socket goes out of scope.
release(t, r) == {s \in sockets : s.owner # t}

\* History: how many calls had returned when a call returns
Returns == Cardinality({u \in Calls : tasks[u].pc = "done"})

\* send_query_to_upstream_server returned res to the loop of the call `task`
TaskServerDone(task, res) ==
    IF res.ok
    THEN {[task EXCEPT !.pc = "done", !.res = Ok(ips), !.after = Returns] :
             ips \in addr_results(client, task.op, res.pkt)}
    ELSE IF task.idx < Len(upstream_servers)
    THEN {[task EXCEPT !.pc = "open", !.idx = @ + 1, !.proto = FirstProto,
                       !.retry = FALSE]}
    ELSE {[task EXCEPT !.pc = "done", !.res = Err(NoResponse.kind, NoResponse.msg),
                       !.after = Returns]}

\* dns_exchange_udp / dns_exchange_tcp up to the wait for the reply.  An
\* exchange that fails here returns at once, and what it had opened is dropped.
conc_open(t) ==
    /\ pc \in {"join", "seq", "threads"}
    /\ Runnable(t)
    /\ tasks[t].pc = "open"
    /\ LET task == tasks[t]
           server == upstream_servers[task.idx]
           e == script[t][task.idx]
           local == IF task.proto = "udp" THEN local_addr(server)
                    ELSE os_local_addr(server)
           failures == IF task.proto = "udp" /\ AddrInUse(local)
                       THEN {ErrBytes("AddrInUse", "bind")}
                       ELSE IF (IF task.proto = "udp" THEN e.udp ELSE e.tcp) = "fail"
                       THEN OpenErrors(client, task.proto)
                       ELSE {}
       IN  \/ \E r \in failures :
                /\ \E nt \in TaskServerDone(task, ErrPkt(r.kind, r.msg)) :
                      tasks' = [tasks EXCEPT ![t] = nt]
                /\ sockets' = release(t, r)
           \/ /\ ~(task.proto = "udp" /\ AddrInUse(local))
              /\ tasks' = [tasks EXCEPT ![t].pc = "wait"]
              /\ sockets' = sockets \cup {[owner |-> t, proto |-> task.proto,
                                            local |-> local, peer |-> server.addr]}
    /\ UNCHANGED <<cfg_vars, pc, engine_vars, call_vars, resolved, result, script, host_vars>>

\* The exchange returns (reply, error or timeout) and
\* send_query_to_upstream_server goes on to its return or to the TCP exchange.
conc_complete(t) ==
    /\ pc \in {"join", "seq", "threads"}
    /\ tasks[t].pc = "wait"
    /\ LET task == tasks[t]
           e == script[t][task.idx]
       IN  \E r \in ScriptReplies(task, task.proto,
                                  IF task.proto = "udp" THEN e.udp ELSE e.tcp) :
              LET p == parse(r.bytes) IN
              /\ sockets' = release(t, r)
              /\ IF ~r.ok
                 THEN \E nt \in TaskServerDone(task, ErrPkt(r.kind, r.msg)) :
                         tasks' = [tasks EXCEPT ![t] = nt]
                 ELSE IF ~p.ok
                 THEN \E nt \in TaskServerDone(task, p) :
                         tasks' = [tasks EXCEPT ![t] = nt]
                 ELSE IF ~task.retry /\ Escalates(p.pkt)
                 THEN tasks' = [tasks EXCEPT ![t].pc = "open", ![t].proto = "tcp",
                                             ![t].retry = TRUE]
                 ELSE \E nt \in TaskServerDone(task, validate(p.pkt, task.q.tid,
                                                               task.q.question)) :
                         tasks' = [tasks EXCEPT ![t] = nt]
    /\ UNCHANGED <<cfg_vars, pc, engine_vars, call_vars, resolved, result, script, host_vars>>

addrs_results_completion_order(c, a, aaaa) ==
    IF ~a.ok THEN {a}
    ELSE IF ~aaaa.ok THEN {aaaa}
    ELSE IF c = "sync" THEN {Ok(ips) : ips \in shuffle(a.val \o aaaa.val)}
    ELSE IF tasks[2].after < tasks[1].after THEN {Ok(aaaa.val \o a.val)}
    ELSE {Ok(a.val \o aaaa.val)}

\* What query_addrs makes of the results a and aaaa of its sub-queries
addrs_results(c, a, aaaa) ==
    IF ~a.ok THEN {a}
    ELSE IF ~aaaa.ok THEN {aaaa}
    ELSE IF c = "sync" THEN {Ok(ips) : ips \in shuffle(a.val \o aaaa.val)}
    ELSE {Ok(a.val \o aaaa.val)}

\* query_addrs returns
conc_return ==
    /\ \/ pc = "join" /\ \A t \in Calls : tasks[t].pc = "done"
       \/ pc = "seq" /\ tasks[1].pc = "done" /\ (tasks[1].res.ok => tasks[2].pc = "done")
    /\ pc' = "done"
    /\ result' \in addrs_results(client, tasks[1].res,
                                 IF tasks[1].res.ok THEN tasks[2].res ELSE NoResult)
    /\ UNCHANGED <<cfg_vars, engine_vars, call_vars, resolved, conc_vars, host_vars>>

InitConc ==
    \E c \in {"sync", "async"}, servers \in SeqUpTo(UpstreamServer, MaxConcServers) :
       /\ new(c, servers)
       /\ PlainHost

NextConc ==
    \/ \E b \in BOOLEAN : set_force_tcp(b)
    \/ \E addr \in LocalV4Addrs : set_local_v4_addr(addr)
    \/ \E addr \in LocalV6Addrs : set_local_v6_addr(addr)
    \/ \E mode \in {"join", "seq", "threads"} : conc_start(mode)
    \/ \E t \in Calls : conc_open(t)
    \/ \E t \in Calls : conc_complete(t)
    \/ conc_return

SpecConc == InitConc /\ [][NextConc]_vars

(***************************************************************************)
(* Properties of the resolution engine (specification Spec).               *)
(***************************************************************************)
LastAttempt == attempts[Len(attempts)]

LastExchange == exchanges[Len(exchanges)]

\* C1: for a query with a question and QR unset, whatever the servers do,
\* query_from_parsed_query returns either a message whose transaction id and
\* question equal those of the query sent, or an error: never a message that
\* differs from the query in either.
ValidatedOrError ==
    /\ resolved.ok =>
          /\ valid_query.parses
          /\ valid_query.pkt.question # NoQuestion
          /\ DNS_FLAG_QR \notin valid_query.pkt.flags
          /\ resolved.pkt.tid = valid_query.pkt.tid
          /\ resolved.pkt.question = valid_query.pkt.question
    /\ (pc = "done" /\ ~resolved.ok) => ~result.ok

\* A mismatching reply was seen and rejected, and a later server's matching
\* reply was returned.
ValidatedOrErrorWitness ==
    /\ pc = "done"
    /\ resolved.ok
    /\ Len(attempts) = 2
    /\ attempts[1].kind = "PermissionDenied"
    /\ result.ok

\* C2: within one resolution the servers are attempted strictly in registry
\* order, server i only after every server before it has failed, none skipped;
\* the call returns the response of the first server whose attempt succeeds and
\* no exchange with any server follows that success.
FailoverOrder ==
    /\ \A k \in 1..Len(exchanges) :
          /\ IF k = 1
             THEN exchanges[k].server = 1
             ELSE exchanges[k].server \in {exchanges[k - 1].server,
                                           exchanges[k - 1].server + 1}
          /\ exchanges[k].server <= Len(upstream_servers)
          /\ \A j \in 1..(exchanges[k].server - 1) :
                j <= Len(attempts) /\ ~attempts[j].ok
    /\ \A j \in 1..Len(attempts) :
          /\ \E k \in 1..Len(exchanges) : exchanges[k].server = j
          /\ attempts[j].ok =>
                /\ j = Len(attempts)
                /\ \A k \in 1..Len(exchanges) : exchanges[k].server <= j
                /\ pc = "done"
                /\ resolved.ok
                /\ resolved.pkt = attempts[j].pkt
    /\ resolved.ok => attempts # <<>> /\ LastAttempt.ok

\* [S1 fails, S2 succeeds]: the call returned S2's answer.
FailoverOrderWitness ==
    /\ pc = "done"
    /\ Len(upstream_servers) = 2
    /\ Len(attempts) = 2
    /\ ~attempts[1].ok
    /\ attempts[2].ok
    /\ resolved.pkt = attempts[2].pkt
    /\ LastExchange.server = 2

PerServerKinds == {"PermissionDenied", "WouldBlock", "TimedOut", "InvalidData",
                   "ConnectionRefused", "AddrInUse"}

\* C3: if every configured server fails in a resolution, or the list is empty,
\* the call fails with the one InvalidInput "No response received from any
\* servers" error; the error kind of a per-server failure is never the error
\* returned to the caller.
AllFailedIsNoResponse ==
    /\ ( /\ pc = "done"
         /\ valid_query.parses
         /\ \A i \in 1..Len(upstream_servers) : i <= Len(attempts) /\ ~attempts[i].ok )
       => /\ ~resolved.ok
          /\ resolved.kind = "InvalidInput"
          /\ resolved.msg = "No response received from any servers"
          /\ ~result.ok
          /\ result.kind = "InvalidInput"
          /\ result.msg = "No response received from any servers"
    /\ (pc = "done" /\ ~result.ok) =>
          /\ result.kind \notin PerServerKinds
          /\ attempts # <<>> => result.msg = "No response received from any servers"

\* Two servers failed in two different ways and the call is over.
AllFailedIsNoResponseWitness ==
    /\ pc = "done"
    /\ Len(attempts) = 2
    /\ attempts[1].kind = "PermissionDenied"
    /\ attempts[2].kind = "WouldBlock"
    /\ ~result.ok

\* C4: without force_tcp, a UDP reply with the TC bit set is followed by exactly
\* one TCP exchange with the same server, before any other server is contacted;
\* that TCP reply, if it matches the query, is the message returned; a TC bit
\* in the TCP reply causes no further exchange with that server.
TruncatedRedoneOverTcp ==
    /\ \A k \in 1..Len(exchanges) :
          LET e == exchanges[k] IN
          /\ (e.proto = "udp" /\ e.tc) =>
                IF k = Len(exchanges)
                THEN pc = "tcp" /\ idx = e.server
                ELSE exchanges[k + 1].proto = "tcp" /\ exchanges[k + 1].server = e.server
          /\ (e.proto = "tcp" /\ k < Len(exchanges)) =>
                exchanges[k + 1].server = e.server + 1
          /\ (e.proto = "tcp" /\ ~force_tcp) =>
                /\ k > 1
                /\ exchanges[k - 1].proto = "udp"
                /\ exchanges[k - 1].tc
                /\ exchanges[k - 1].server = e.server
                /\ e.matches =>
                      /\ k = Len(exchanges)
                      /\ pc = "done"
                      /\ resolved.ok
                      /\ response = Wire(resolved.pkt)
                      /\ e.tc = (DNS_FLAG_TC \in resolved.pkt.flags)
    /\ pc = "tcp" => exchanges # <<>> /\ LastExchange.proto = "udp" /\ LastExchange.tc

\* A truncated UDP reply was redone over TCP with the same server, and the TCP
\* reply, itself with the TC bit set, was returned.
TruncatedRedoneOverTcpWitness ==
    /\ pc = "done"
    /\ Len(exchanges) = 2
    /\ exchanges[1].proto = "udp" /\ exchanges[1].tc
    /\ exchanges[2].proto = "tcp" /\ exchanges[2].tc
    /\ exchanges[2].server = exchanges[1].server
    /\ resolved.ok
    /\ DNS_FLAG_TC \in resolved.pkt.flags

\* C5: with tid_masking, whatever id the random generator produces, the bytes
\* query_raw returns carry the transaction id of the caller's input bytes.
MaskingTransparent ==
    (pc = "done" /\ callers = <<"query_raw">> /\ tid_masking /\ result.ok) =>
        /\ result.val.parses
        /\ result.val.pkt.tid = query.pkt.tid

\* A masked call returned bytes, and the id sent on the wire was another one.
MaskingTransparentWitness ==
    /\ pc = "done"
    /\ callers = <<"query_raw">>
    /\ tid_masking
    /\ result.ok
    /\ valid_query.pkt.tid # query.pkt.tid
    /\ resolved.pkt.tid = valid_query.pkt.tid

BadRawQuery ==
    \/ ~query.parses
    \/ query.pkt.question = NoQuestion
    \/ DNS_FLAG_QR \in query.pkt.flags

\* C6: a query without a question or with the QR flag set, and raw bytes that
\* do not parse, are rejected with InvalidInput and no exchange with any
\* server is performed for them.
BadQueryNoExchange ==
    (callers = <<"query_raw">> /\ BadRawQuery) =>
        /\ pc = "done"
        /\ ~result.ok
        /\ result.kind = "InvalidInput"
        /\ exchanges = <<>>
        /\ attempts = <<>>

\* A query with a question and the QR flag set was rejected by a client that
\* has servers.
BadQueryNoExchangeWitness ==
    /\ pc = "done"
    /\ callers = <<"query_raw">>
    /\ query.parses
    /\ query.pkt.question # NoQuestion
    /\ DNS_FLAG_QR \in query.pkt.flags
    /\ upstream_servers # <<>>
    /\ result.kind = "InvalidInput"

\* C7: a failure of one server's attempt, whatever its kind, never aborts the
\* call: when a server has failed and a later server exists, that next server
\* is attempted (its first exchange is the next step, or has taken place).
FailureTriesNext ==
    \A i \in 1..Len(attempts) :
       (~attempts[i].ok /\ i < Len(upstream_servers)) =>
           \/ pc = "exchange" /\ idx = i + 1 /\ Len(attempts) = i
           \/ \E k \in 1..Len(exchanges) : exchanges[k].server = i + 1

\* The first server's reply was refused as PermissionDenied and the second
\* server was then contacted.
FailureTriesNextWitness ==
    /\ Len(attempts) >= 1
    /\ attempts[1].kind = "PermissionDenied"
    /\ exchanges # <<>>
    /\ LastExchange.server = 2

\* C9: with force_tcp a call performs no UDP exchange, each attempted server
\* receives exactly one TCP exchange and nothing else; without it the first
\* exchange with each attempted server is a UDP exchange.
ForceTcpOnly ==
    /\ force_tcp =>
          /\ \A k \in 1..Len(exchanges) :
                exchanges[k].proto = "tcp" /\ exchanges[k].server = k
          /\ Len(attempts) <= Len(exchanges)
    /\ ~force_tcp =>
          \A k \in 1..Len(exchanges) :
             (k = 1 \/ exchanges[k - 1].server # exchanges[k].server) =>
                 exchanges[k].proto = "udp"

\* With force_tcp, two servers were attempted with one TCP exchange each.
ForceTcpOnlyWitness ==
    /\ force_tcp
    /\ pc = "done"
    /\ Len(exchanges) = 2
    /\ Len(attempts) = 2
    /\ exchanges[2].tc

(***************************************************************************)
(* Properties of query_ptr (specification SpecPtr).                        *)
(***************************************************************************)
Confirmed(e) == contains(e.ips, ip)

\* C8: every name query_ptr(ip) returns was forward-confirmed during the call:
\* the A lookup (IPv4 ip) or AAAA lookup (IPv6 ip) of that name, made after the
\* PTR answer was decoded, returned a list containing ip; a decoded name whose
\* forward lookup succeeds without containing ip is not in the result.
PtrForwardConfirmed ==
    LET confirmed == SelectSeq(fwd, Confirmed) IN
    /\ \A i \in 1..Len(names) :
          \E k \in 1..Len(fwd) : fwd[k].name = names[i] /\ contains(fwd[k].ips, ip)
    /\ names = [i \in 1..Len(confirmed) |-> confirmed[i].name]
    /\ Len(callers) = 2 =>
          /\ callers[2] = (IF Len(ip) = 4 THEN "query_a" ELSE "query_aaaa")
          /\ valid_query.parses =>
                valid_query.pkt.question =
                    Question(fwd_name, IF Len(ip) = 4 THEN "A" ELSE "AAAA", "IN")
    /\ (pc = "done" /\ result.ok) => callers = <<"query_ptr">> /\ result.val = names

\* Two PTR names were decoded and looked up; one forward answer contained ip
\* and the other did not, and only the former was returned.
PtrForwardConfirmedWitness ==
    /\ pc = "done"
    /\ result.ok
    /\ Len(fwd) = 2
    /\ ~contains(fwd[1].ips, ip)
    /\ fwd[1].ips # <<>>
    /\ contains(fwd[2].ips, ip)
    /\ result.val = <<fwd[2].name>>

(***************************************************************************)
(* Properties of the TXT decoding (specification SpecTxt).                 *)
(***************************************************************************)
\* The positions of the length bytes of data: position 1, and the position that
\* follows each chunk that fits.
ChunkStarts(data) ==
    CHOOSE S \in SUBSET (1..Len(data)) :
       /\ data # <<>> => 1 \in S
       /\ \A s \in S :
             /\ s = 1 \/ \E b \in S : b + data[b] + 1 = s
             /\ s + data[s] + 1 <= Len(data) => s + data[s] + 1 \in S

\* Some chunk's length byte exceeds the number of bytes that remain.
Truncated(data) == \E s \in ChunkStarts(data) : data[s] > Len(data) - s

\* The data bytes of the chunks, in order, with no separator
ChunkData(data) ==
    LET keep == (1..Len(data)) \ ChunkStarts(data) IN
    [k \in 1..Cardinality(keep) |->
        data[CHOOSE i \in keep : Cardinality({j \in keep : j < i}) = k - 1]]

InTxt(answers) == {i \in 1..Len(answers) : answers[i].class = "IN" /\ answers[i].type = "TXT"}

\* C10: TXT record data is decoded as {length byte, that many data bytes}
\* chunks whose data bytes are concatenated in order without separators
\* ({3,"abc"},{2,"de"} gives "abcde"); if some chunk's length byte exceeds the
\* number of bytes remaining query_txt fails with InvalidInput; for well-formed
\* data the decoded length is the input length minus the number of chunks.
TxtChunksDecoded ==
    LET answers == resolved.pkt.answers IN
    (pc = "done" /\ callers = <<"query_txt">> /\ resolved.ok) =>
        /\ (\E i \in InTxt(answers) : Truncated(answers[i].rdata)) =>
              ~result.ok /\ result.kind = "InvalidInput"
        /\ (\A i \in 1..Len(answers) : i \in InTxt(answers) /\ ~Truncated(answers[i].rdata))
              => result.ok /\ Len(result.val) = Len(answers)
        /\ result.ok =>
              \A i \in InTxt(answers) :
                 \E j \in 1..Len(result.val) :
                    /\ result.val[j] = ChunkData(answers[i].rdata)
                    /\ Len(result.val[j]) =
                          Len(answers[i].rdata) - Cardinality(ChunkStarts(answers[i].rdata))
                    /\ answers[i].rdata = TxtExample =>
                          result.val[j] = <<97, 98, 99, 100, 101>>

\* The record {3,"abc"},{2,"de"} was decoded as "abcde".
TxtChunksDecodedWitness ==
    /\ pc = "done"
    /\ callers = <<"query_txt">>
    /\ \E i \in 1..Len(resolved.pkt.answers) : resolved.pkt.answers[i].rdata = TxtExample
    /\ result.ok
    /\ result.val = <<<<97, 98, 99, 100, 101>>>>

(***************************************************************************)
(* Properties of the typed lookups (specification SpecTyped).              *)
(***************************************************************************)
\* An answer record of the class and type the query asked for
Requested(rr) == rr.class = query_question[3] /\ rr.type = query_question[2]

\* C11: query_rrs_data(name, class, type) returns, in answer-section order, the
\* unmodified raw data of exactly the answer records of the validated response
\* whose class and type equal the requested ones; a record of another class or
\* type contributes nothing.  Stated for the blocking and the async client.
RrsDataFiltered ==
    LET requested == SelectSeq(resolved.pkt.answers, Requested) IN
    (pc = "done" /\ callers = <<"query_rrs_data">> /\ resolved.ok) =>
        /\ result.ok
        /\ result.val = [i \in 1..Len(requested) |-> requested[i].rdata]

\* The same statement for the blocking client alone
RrsDataFilteredSync == client = "sync" => RrsDataFiltered

\* The blocking client returned the one requested record that followed a CNAME.
RrsDataFilteredSyncWitness ==
    /\ client = "sync"
    /\ pc = "done"
    /\ callers = <<"query_rrs_data">>
    /\ resolved.ok
    /\ Len(resolved.pkt.answers) = 2
    /\ resolved.pkt.answers[1] = CnameRR
    /\ Len(result.val) = 1

\* The answer records that decode as an address of the family query_a ("A")
\* or query_aaaa ("AAAA") collects
AddrRecords(answers) ==
    {i \in 1..Len(answers) :
        answers[i].type = (IF callers = <<"query_a">> THEN "A" ELSE "AAAA")}

\* C12: query_a returns exactly the multiset of the IPv4 addresses of the
\* answer records of the validated response that decode as an IPv4 address
\* (query_aaaa likewise for IPv6): other records are skipped without failing
\* the call, no address is dropped or duplicated, and the blocking client's
\* shuffle only permutes the list (the async client keeps the answer order).
AddrsExactMultiset ==
    LET answers == resolved.pkt.answers
        recs == AddrRecords(answers)
    IN  (pc = "done" /\ callers \in {<<"query_a">>, <<"query_aaaa">>} /\ resolved.ok) =>
            /\ result.ok
            /\ Len(result.val) = Cardinality(recs)
            /\ \A x \in {answers[i].rdata : i \in recs} \cup Range(result.val) :
                  Cardinality({j \in 1..Len(result.val) : result.val[j] = x})
                      = Cardinality({i \in recs : answers[i].rdata = x})
            /\ client = "async" =>
                  \A j \in 1..Len(result.val) :
                     \E i \in recs :
                        /\ answers[i].rdata = result.val[j]
                        /\ Cardinality({k \in recs : k < i}) = j - 1

\* query_a skipped an AAAA record and returned the address of the A record
\* behind it.
AddrsExactMultisetWitness ==
    /\ pc = "done"
    /\ callers = <<"query_a">>
    /\ resolved.ok
    /\ resolved.pkt.answers = <<RR("IN", "AAAA", Ipv6a), RR("IN", "A", Ipv4b)>>
    /\ result.val = <<Ipv4b>>

(***************************************************************************)
(* Properties of concurrent calls (specification SpecConc).                *)
(***************************************************************************)
Occurrences(x, list) == Cardinality({j \in 1..Len(list) : list[j] = x})

\* C13: query_addrs(name) returns the union, as a multiset, of the results of
\* the A query and of the AAAA query when both succeed and fails when either
\* fails; in the async client, where the two run concurrently, the list is
\* the A results followed by the AAAA results whatever the interleaving and
\* the completion order.
AddrsUnion ==
    (pc = "done" /\ callers = <<"query_addrs">>) =>
        LET a == tasks[1].res
            aaaa == tasks[2].res
        IN  /\ result.ok = (a.ok /\ aaaa.ok)
            /\ result.ok =>
                  /\ tasks[1].pc = "done" /\ tasks[2].pc = "done"
                  /\ Len(result.val) = Len(a.val) + Len(aaaa.val)
                  /\ \A x \in Range(result.val) \cup Range(a.val) \cup Range(aaaa.val) :
                        Occurrences(x, result.val)
                            = Occurrences(x, a.val) + Occurrences(x, aaaa.val)
                  /\ client = "async" => result.val = a.val \o aaaa.val

\* The async query_addrs returned the A result before the AAAA result although
\* the AAAA sub-query had returned first.
AddrsUnionWitness ==
    /\ pc = "done"
    /\ client = "async"
    /\ callers = <<"query_addrs">>
    /\ result.ok
    /\ result.val = <<Ipv4a, Ipv6a>>
    /\ tasks[2].after = 0
    /\ tasks[1].after = 1

\* Server i answers call t well when the call is the only one: a good UDP
\* reply, or a truncated one and a good TCP reply; a good TCP reply when the
\* first exchange is over TCP.
AloneSucceeds(t, i) ==
    LET e == script[t][i] IN
    IF client = "sync" /\ force_tcp
    THEN e.tcp = "good"
    ELSE e.udp = "good" \/ (e.udp = "tc" /\ e.tcp = "good")

\* C14: calls that run concurrently on one client do not interfere: for every
\* configuration, caller-set local addresses with a fixed port included, and
\* every interleaving, the outcome of each call is the one it would have if
\* it ran alone against the same server replies.
CallsIndependent ==
    pc \in {"join", "seq", "threads", "done"} =>
        \A t \in Calls :
           (tasks[t].pc = "done" /\ tasks[t].idx >= 1) =>
               /\ tasks[t].res.ok = (\E i \in 1..Len(upstream_servers) : AloneSucceeds(t, i))
               /\ tasks[t].res.ok =>
                     tasks[t].res.val = (IF t = 1 THEN <<Ipv4a>> ELSE <<Ipv6a>>)

\* The same statement for the clients whose local addresses leave the port to
\* the system
CallsIndependentAnyPort ==
    (local_v4_addr.port = 0 /\ local_v6_addr.port = 0) => CallsIndependent

\* C15: the socket an exchange opens is released on every exit path of the
\* exchange (success, send or connect error, receive timeout, oversized TCP
\* length, short read, cancellation by the async timeout): the sockets that are
\* open belong to exchanges that have not returned, a call holds at most one
\* socket at a time and none once it has returned.
SocketsScoped ==
    /\ pc \in {"idle", "done"} => sockets = {}
    /\ \A s \in sockets :
          /\ tasks[s.owner].pc = "wait"
          /\ tasks[s.owner].proto = s.proto
          /\ upstream_servers[tasks[s.owner].idx].addr = s.peer
          /\ \A u \in sockets : u.owner = s.owner => u = s

\* Call 1 has returned after the exchanges with both servers failed, a
\* truncated UDP reply and a failed TCP exchange among them, and holds no
\* socket; call 2 is waiting for a reply and holds one.
SocketsScopedWitness ==
    /\ pc = "threads"
    /\ Len(upstream_servers) = 2
    /\ tasks[1].pc = "done"
    /\ ~tasks[1].res.ok
    /\ script[1][2] = [udp |-> "tc", tcp |-> "fail"]
    /\ tasks[2].pc = "wait"
    /\ Cardinality(sockets) = 1

\* C16: every transport exchange with an upstream server, UDP or TCP, is bound
\* to the configured local address of the upstream's family: local_v4_addr for
\* an IPv4 upstream, local_v6_addr for an IPv6 upstream.
BoundToLocalAddr ==
    \A s \in sockets :
       s.local = (IF s.peer.family = "V4" THEN local_v4_addr ELSE local_v6_addr)

\* The same statement for the UDP exchanges alone
BoundToLocalAddrUdp ==
    \A s \in sockets :
       s.proto = "udp" =>
           s.local = (IF s.peer.family = "V4" THEN local_v4_addr ELSE local_v6_addr)

(***************************************************************************)
(* More properties of the resolution engine (specification Spec).          *)
(***************************************************************************)
\* C17: for every raw query resolved with tid_masking, the transaction id of
\* the query sent on the wire differs from the transaction id of the caller's
\* input bytes.
MaskedTidDiffers ==
    (callers = <<"query_raw">> /\ tid_masking /\ exchanges # <<>>) =>
        valid_query.pkt.tid # query.pkt.tid

\* C17 as the code has it: the query sent on the wire is the caller's query
\* with its transaction id replaced by the id the random generator produced,
\* which is drawn without regard to the caller's id and may equal it.
MaskedTidIsDrawn ==
    (callers = <<"query_raw">> /\ tid_masking /\ valid_query.parses) =>
        /\ tid = query.pkt.tid
        /\ valid_query.pkt.tid = masked_tid
        /\ valid_query.pkt = [query.pkt EXCEPT !.tid = masked_tid]

\* A masked query went out with an id that is not the caller's.
MaskedTidIsDrawnWitness ==
    /\ callers = <<"query_raw">>
    /\ tid_masking
    /\ exchanges # <<>>
    /\ masked_tid # query.pkt.tid
    /\ valid_query.pkt.tid = masked_tid

\* C18: when force_tcp is not set, a message received over UDP with the TC bit
\* set is never the message a resolution returns: if the follow-up TCP
\* exchange with that server fails, does not parse or fails validation, the
\* server's attempt fails and the engine goes on to the next server (or to the
\* terminal error) instead of falling back to the truncated UDP answer.
TruncatedNeverReturned ==
    ~force_tcp =>
        /\ \A k \in 1..Len(exchanges) :
              LET e == exchanges[k] IN
              /\ (e.proto = "udp" /\ e.tc /\ Len(attempts) >= e.server
                    /\ attempts[e.server].ok) =>
                        /\ k + 1 = Len(exchanges)
                        /\ exchanges[k + 1].proto = "tcp"
                        /\ exchanges[k + 1].matches
              /\ (e.proto = "tcp" /\ ~e.matches) =>
                    /\ Len(attempts) >= e.server
                    /\ ~attempts[e.server].ok
                    /\ IF e.server < Len(upstream_servers)
                       THEN \/ pc = "exchange" /\ idx = e.server + 1
                            \/ k < Len(exchanges) /\ exchanges[k + 1].server = e.server + 1
                       ELSE pc = "done" /\ resolved = NoResponse
        /\ resolved.ok =>
              /\ ~(LastExchange.proto = "udp" /\ LastExchange.tc)
              /\ DNS_FLAG_TC \in resolved.pkt.flags => LastExchange.proto = "tcp"
              /\ response = Wire(resolved.pkt)

\* The first server's UDP reply was truncated and matched the query, its TCP
\* exchange failed, and the answer returned is the second server's.
TruncatedNeverReturnedWitness ==
    /\ ~force_tcp
    /\ pc = "done"
    /\ Len(exchanges) = 3
    /\ exchanges[1].proto = "udp" /\ exchanges[1].tc /\ exchanges[1].matches
    /\ exchanges[2].proto = "tcp" /\ exchanges[2].reply = "error"
    /\ exchanges[3].server = 2
    /\ resolved.ok
    /\ ~attempts[1].ok

(***************************************************************************)
(* More properties of query_ptr (specification SpecPtr).                   *)
(***************************************************************************)
Decimal(n) ==
    IF n < 10 THEN <<48 + n>>
    ELSE IF n < 100 THEN <<48 + (n \div 10), 48 + (n % 10)>>
    ELSE <<48 + (n \div 100), 48 + ((n \div 10) % 10), 48 + (n % 10)>>

HexDigit(n) == IF n < 10 THEN 48 + n ELSE 87 + n

\* "d.c.b.a.in-addr.arpa" for the IPv4 address a.b.c.d
ReverseV4(addr) ==
    Decimal(addr[4]) \o <<46>> \o Decimal(addr[3]) \o <<46>> \o Decimal(addr[2])
        \o <<46>> \o Decimal(addr[1]) \o InAddrArpa

\* The 32 nibbles of an IPv6 address, last nibble first, one per label
ReverseV6(addr) ==
    [i \in 1..63 |->
        IF i % 2 = 0 THEN 46
        ELSE LET n == (i + 1) \div 2
                 octet == addr[16 - ((n - 1) \div 2)]
             IN  HexDigit(IF n % 2 = 1 THEN octet % 16 ELSE octet \div 16)]
    \o Ip6Arpa

\* The PTR question of the query_ptr in progress, if it is the query sent
PtrQuestionSent ==
    /\ callers # <<>>
    /\ callers[1] = "query_ptr"
    /\ valid_query.parses
    /\ valid_query.pkt.question[2] = "PTR"

\* C19: the reverse name query_ptr asks for is "d.c.b.a.in-addr.arpa" for the
\* IPv4 address a.b.c.d and, for an IPv6 address, its 32 hexadecimal nibbles in
\* reverse order, one per label, followed by ".ip6.arpa".
ReverseNameFormat ==
    PtrQuestionSent =>
        valid_query.pkt.question =
            Question(IF Len(ip) = 4 THEN ReverseV4(ip) ELSE ReverseV6(ip), "PTR", "IN")

\* The same statement for IPv4 addresses alone
ReverseNameFormatV4 == Len(ip) = 4 => ReverseNameFormat

(***************************************************************************)
(* The framing of TCP responses (specification SpecTcp).                   *)
(***************************************************************************)
\* The TCP exchanges that read both bytes of the length prefix
Framed == {k \in 1..Len(exchanges) : /\ exchanges[k].proto = "tcp"
                                     /\ Len(exchanges[k].stream.len_bytes) = 2}

\* The for loop went on after the exchange e: to the next server when there is
\* one, to the error that no server answered when there is none.
WentOn(e) ==
    IF e.server < Len(upstream_servers)
    THEN idx > e.server
    ELSE pc = "done" /\ resolved = NoResponse

\* C20: a TCP response whose two-byte big-endian length prefix is above
\* DNS_MAX_COMPRESSED_SIZE fails with InvalidData when only the two bytes of the
\* prefix have been read, it is the failure of that server alone, and the for
\* loop goes on with the next server; a response whose prefix is at most
\* DNS_MAX_COMPRESSED_SIZE and whose bytes arrive is read in full.
TcpLengthPrefix ==
    \A k \in Framed :
        LET e == exchanges[k]
            response_len == e.stream.len_bytes[1] * 256 + e.stream.len_bytes[2]
        IN  /\ response_len > DNS_MAX_COMPRESSED_SIZE =>
                 /\ e.reply = "error"
                 /\ e.consumed = 2
                 /\ attempts[e.server] = ErrPkt("InvalidData", "Response too large")
                 /\ WentOn(e)
            /\ (response_len <= DNS_MAX_COMPRESSED_SIZE /\ e.stream.size >= response_len) =>
                 /\ e.reply # "error"
                 /\ e.consumed = 2 + response_len

\* An oversized response from the first server, then the second server's reply
\* returned; and a response of exactly DNS_MAX_COMPRESSED_SIZE bytes returned.
TcpLengthPrefixWitness ==
    /\ pc = "done"
    /\ result.ok
    /\ \E j, k \in Framed :
          /\ exchanges[j].server = 1
          /\ exchanges[j].stream.len_bytes = <<16, 16>>
          /\ exchanges[j].stream.size = 4113
          /\ exchanges[k].server = 2
          /\ exchanges[k].stream.len_bytes = <<16, 0>>
          /\ exchanges[k].consumed = 2 + DNS_MAX_COMPRESSED_SIZE

(***************************************************************************)
(* Termination of a resolution.  The backends bound every exchange by      *)
(* upstream_server_timeout, so an exchange that has started returns.       *)
(***************************************************************************)
SpecLive == Init /\ [][Next]_vars /\ WF_vars(first_exchange) /\ WF_vars(tcp_exchange)

\* The exchanges of the current resolution with server s over transport proto
ExchangesWith(s, proto) ==
    {k \in 1..Len(exchanges) : exchanges[k].server = s /\ exchanges[k].proto = proto}

\* One linear sweep: no exchange goes back to an earlier server, a server gets
\* at most one UDP and at most one TCP exchange, and N servers get at most 2N
\* exchanges, N with force_tcp.
SingleSweep ==
    /\ \A j, k \in 1..Len(exchanges) :
          j < k => exchanges[j].server <= exchanges[k].server
    /\ \A j \in 1..Len(attempts) :
          (~attempts[j].ok /\ pc # "done") => idx > j
    /\ Len(attempts) <= Len(upstream_servers)
    /\ \A s \in 1..Len(upstream_servers) :
          /\ Cardinality(ExchangesWith(s, "udp")) <= 1
          /\ Cardinality(ExchangesWith(s, "tcp")) <= 1
    /\ Len(exchanges) <= 2 * Len(upstream_servers)
    /\ force_tcp => Len(exchanges) <= Len(upstream_servers)

\* C21: every resolution call terminates when each exchange returns or times
\* out: it is one linear sweep (a failed server is never contacted again, each
\* server is attempted at most once with at most one UDP and one TCP exchange,
\* at most 2N exchanges over N servers and N with force_tcp), and a call that
\* has started returns a response or the terminal error.
CallTerminates == [](SingleSweep) /\ ((pc # "idle") ~> (pc = "done"))

\* A call over two servers that took 2N = 4 exchanges and returned the
\* terminal error.
CallTerminatesWitness ==
    /\ pc = "done"
    /\ Len(upstream_servers) = 2
    /\ Len(exchanges) = 4
    /\ Len(attempts) = 2
    /\ resolved = NoResponse

(***************************************************************************)
(* The two implementations of the engine (specification SpecEq).           *)
(***************************************************************************)
\* The second call has returned
BothReturned == pc = "done" /\ tasks # <<>>

\* C22: for the same query, the same upstream list and the same behaviour of
\* the servers at each exchange, the blocking engine without force_tcp and the
\* async engine perform the same sequence of (server, transport) exchanges and
\* return the same result: the same accepted message or the same error.
EnginesAgree ==
    BothReturned =>
        /\ client # tasks[1].client
        /\ query = tasks[1].query
        /\ Transports(exchanges) = tasks[1].exchanges
        /\ resolved = tasks[1].resolved
        /\ result = tasks[1].result

\* Both implementations met a silent first server, with different error kinds,
\* then a truncated UDP reply of the second server, and returned its TCP reply.
EnginesAgreeWitness ==
    /\ BothReturned
    /\ result.ok
    /\ Transports(exchanges) = <<<<1, "udp">>, <<2, "udp">>, <<2, "tcp">>>>
    /\ attempts[1].kind # tasks[1].attempts[1].kind

(***************************************************************************)
(* The errors of default_resolvers (specification SpecSys).                *)
(***************************************************************************)
DefaultResolversReturned == pc = "done" /\ callers = <<"default_resolvers">>

\* C23: on a platform without host resolver configuration (not unix),
\* default_resolvers fails with the Unsupported error kind, which differs from
\* the NotFound kind it returns when the host configuration is read and yields
\* no usable name server.
ResolversErrorKinds ==
    DefaultResolversReturned =>
        /\ platform # "unix" => ~result.ok /\ result.kind = "Unsupported"
        /\ (platform = "unix" /\ resolv_conf.readable
              /\ conf_servers(resolv_conf.lines, <<>>) = <<>>) =>
                 ~result.ok /\ result.kind = "NotFound"

\* The part of the statement about unix hosts
ResolversNotFoundOnUnix ==
    (DefaultResolversReturned /\ platform = "unix" /\ resolv_conf.readable) =>
        IF conf_servers(resolv_conf.lines, <<>>) = <<>>
        THEN ~result.ok /\ result.kind = "NotFound"
        ELSE result = Ok(conf_servers(resolv_conf.lines, <<>>))

(***************************************************************************)
(* More properties of the resolution engine (specification Spec).          *)
(***************************************************************************)
\* The exchange k is the last one with its server, whose attempt has returned
LastOfAttempt(k) ==
    /\ Len(attempts) >= exchanges[k].server
    /\ \A m \in (k + 1)..Len(exchanges) : exchanges[m].server # exchanges[k].server

\* C24: with tid_masking the replies are validated against the masked
\* transaction id sent on the wire, not against the caller's: a reply that
\* carries the caller's id is rejected whenever that id differs from the masked
\* one, and the caller's id is written only into a response that was accepted
\* against the masked id.
MaskedTidValidated ==
    (callers = <<"query_raw">> /\ tid_masking /\ valid_query.parses) =>
        /\ query_tid = masked_tid
        /\ \A j \in 1..Len(attempts) :
              attempts[j].ok => attempts[j].pkt.tid = masked_tid
        /\ \A k \in 1..Len(exchanges) :
              (LastOfAttempt(k) /\ exchanges[k].tid = tid /\ tid # masked_tid) =>
                  attempts[exchanges[k].server]
                     = ErrPkt("PermissionDenied", "Unexpected response")
        /\ (pc = "done" /\ result.ok) =>
              /\ resolved.ok
              /\ resolved.pkt.tid = masked_tid
              /\ result.val = Wire([resolved.pkt EXCEPT !.tid = tid])

\* The first server answered the question with the caller's id and was
\* rejected; the second answered with the masked id and its reply was returned
\* with the caller's id.
MaskedTidValidatedWitness ==
    /\ callers = <<"query_raw">>
    /\ tid_masking
    /\ tid # masked_tid
    /\ pc = "done"
    /\ result.ok
    /\ Len(exchanges) = 2
    /\ exchanges[1].tid = tid
    /\ attempts[1].kind = "PermissionDenied"
    /\ exchanges[2].tid = masked_tid
    /\ result.val.pkt.tid = tid

\* The exchange k gave the candidate that the attempt of its server validated:
\* the attempt has returned, k is its last exchange and the reply parsed
FinalCandidate(k) ==
    /\ LastOfAttempt(k)
    /\ exchanges[k].reply = "message"

\* C25: the escalation from UDP to TCP is decided before the validation:
\* without force_tcp every UDP reply that parses and has the TC bit set is
\* followed by the TCP exchange with that server, whether or not its
\* transaction id and question match the query, and the attempt succeeds
\* exactly when its final candidate (the TCP reply, or the UDP reply without
\* TC) matches the query.
EscalationBeforeValidation ==
    ~force_tcp =>
        \A k \in 1..Len(exchanges) :
            LET e == exchanges[k] IN
            /\ (e.proto = "udp" /\ e.tc) =>
                  /\ ~LastOfAttempt(k)
                  /\ IF k = Len(exchanges)
                     THEN pc = "tcp" /\ idx = e.server /\ Len(attempts) = e.server - 1
                     ELSE /\ exchanges[k + 1].proto = "tcp"
                          /\ exchanges[k + 1].server = e.server
            /\ (e.proto = "udp" /\ e.reply = "message" /\ ~e.tc) => LastOfAttempt(k)
            /\ FinalCandidate(k) => attempts[e.server].ok = e.matches

\* A truncated UDP reply that did not match the query was followed by the TCP
\* exchange, whose matching reply was returned.
EscalationBeforeValidationWitness ==
    /\ ~force_tcp
    /\ pc = "done"
    /\ Len(exchanges) = 2
    /\ exchanges[1].proto = "udp" /\ exchanges[1].tc /\ ~exchanges[1].matches
    /\ exchanges[2].proto = "tcp" /\ exchanges[2].matches
    /\ resolved.ok

(***************************************************************************)
(* The errors of query_ptr (specification SpecPtr).                        *)
(***************************************************************************)
\* A PTR answer query_ptr decodes: class IN, type PTR, with raw data
PtrData(rr) == rr.class = "IN" /\ rr.type = "PTR" /\ rr_rd(rr).variant = "Data"

\* A PTR answer whose label encoding is cut short
PtrTruncated(rr) == PtrData(rr) /\ Truncated(rr.rdata)

\* A PTR answer whose name is to be confirmed: its labels are whole and UTF-8
PtrNamed(rr) == PtrData(rr) /\ ~Truncated(rr.rdata) /\ Utf8(ChunkData(rr.rdata))

\* query_ptr has returned after its PTR resolution succeeded
PtrLoopReturned ==
    /\ pc = "done"
    /\ callers # <<>>
    /\ callers[1] = "query_ptr"
    /\ Len(callers) = 2 \/ resolved.ok

\* C26: if the forward lookup of a decoded PTR name fails, or the label
\* encoding of a PTR answer is truncated, query_ptr fails as a whole with that
\* error and returns no name, not even the names confirmed before; the answers
\* it passes over without an error are only those of another class or type,
\* without raw data, or not valid UTF-8: every other answer is looked up, in
\* the order of the answer section.
PtrFailsAsAWhole ==
    PtrLoopReturned =>
        LET named == SelectSeq(ptr_answers, PtrNamed)
            truncated == SelectSeq(ptr_answers, PtrTruncated)
            looked == Len(fwd) + (IF Len(callers) = 2 THEN 1 ELSE 0)
        IN  /\ Len(fwd) <= Len(named)
            /\ \A k \in 1..Len(fwd) : fwd[k].name = decode_name(named[k].rdata).name
            /\ (Len(callers) = 2 /\ ~resolved.ok) =>
                  /\ result = Err(resolved.kind, resolved.msg)
                  /\ looked <= Len(named)
                  /\ fwd_name = decode_name(named[looked].rdata).name
            /\ truncated # <<>> => ~result.ok
            /\ (truncated # <<>> /\ Len(callers) = 1) =>
                  result = Err("InvalidInput", "Invalid text record")
            /\ result.ok = (truncated = <<>> /\ Len(fwd) = Len(named))
            /\ result.ok => result.val = names

\* The first PTR name was confirmed, the forward lookup of the second failed
\* at every server, and query_ptr returned that error and no name.
PtrFailsAsAWholeWitness ==
    /\ PtrLoopReturned
    /\ Len(callers) = 2
    /\ names # <<>>
    /\ Len(fwd) = 1
    /\ resolved = NoResponse
    /\ result = Err("InvalidInput", "No response received from any servers")

(***************************************************************************)
(* What the validation looks at (specification Spec).                      *)
(***************************************************************************)
\* C27: whether a candidate response is accepted depends only on its
\* transaction id and its question: a final candidate that matches the query
\* in both is accepted and returned as it is, whatever its other header bits,
\* including a reply without the QR bit and, over TCP, a reply with the TC
\* bit; one that differs in either is rejected.
AcceptedByTidAndQuestion ==
    \A k \in 1..Len(exchanges) :
        LET e == exchanges[k] IN
        FinalCandidate(k) =>
            /\ attempts[e.server].ok = e.matches
            /\ ~e.matches =>
                  attempts[e.server] = ErrPkt("PermissionDenied", "Unexpected response")
            /\ e.matches =>
                  /\ k = Len(exchanges)
                  /\ pc = "done"
                  /\ resolved = attempts[e.server]
                  /\ response = Wire(resolved.pkt)
                  /\ resolved.pkt.tid = e.tid
                  /\ (DNS_FLAG_TC \in resolved.pkt.flags) = e.tc
                  /\ e.tc => e.proto = "tcp"

\* With force_tcp, a reply with the TC bit and without the QR bit that
\* matched the query was returned.
AcceptedByTidAndQuestionWitness ==
    /\ force_tcp
    /\ pc = "done"
    /\ resolved.ok
    /\ exchanges # <<>>
    /\ LastExchange.matches
    /\ resolved.pkt.flags = {DNS_FLAG_TC}

====
